---- MODULE Spec2Model ----
(***************************************************************************)
(* NetworkStats (src/unnamed/part_002): the statistics cache, the bounded  *)
(* breadth-first path finder, degree / betweenness centrality, clustering  *)
(* coefficient, hub identification and label-propagation community         *)
(* detection over the verse list built by DataLoader.processData           *)
(* (src/unnamed/part_000).                                                 *)
(*                                                                         *)
(* Representation.                                                         *)
(*   verse       [id, refs, refCount]; the fields verse, book, x, y are    *)
(*               copied by the algorithms and never read, so they are left *)
(*               out.  Ids are strings in the code and integers >= 1 here  *)
(*               (every id is truthy in both).                             *)
(*   null        the empty sequence <<>>; a filled cache slot holding v is *)
(*               <<v>>.  findShortestPath returns a non-empty path or <<>>.*)
(*   numbers     a JavaScript number is [k, n, d]: k = "num" is the        *)
(*               rational n/d in lowest terms with d > 0, k = "nan" is NaN,*)
(*               k = "inf" is n * Infinity (n = 1 or -1).                  *)
(***************************************************************************)
EXTENDS Integers, Sequences, FiniteSets, TLC

VARIABLES
    verses,       \* DataLoader's verse list, the argument of every call
    statsCache,   \* NetworkStats.statsCache
    pc,           \* "idle", or the loop a running call is in ("all_..." for the
                  \* loops run on behalf of computeAllStats)
    bw,           \* locals of a running calculateBetweennessCentrality
    cd,           \* locals of a running detectCommunities
    ret,          \* the last call and what it returned
    all,          \* the entries of stats a running computeAllStats has evaluated
    panel         \* StatsPanel: its elements' classes and text, currentStats, and
                  \* the computeAndDisplay invocations that have not finished

vars == <<verses, statsCache, pc, bw, cd, ret, all, panel>>

-----------------------------------------------------------------------------
(* Bounds of the model *)

MaxNodes == 3
MaxEdges == 3
MaxChain == 8

MaxComplete == 4

MaxRunEdges == 2

MaxRunChain == 4

MaxTopN == 2

MaxCacheNodes == 2

(* Program constants *)

maxDepth == 6

DefaultTopN == 50

ReportTopN == 30

DefaultSampleSize == 200

DefaultIterations == 5

ReportSampleSize == 200

ReportIterations == 5

TopVersesCount == 10

ReportCount == 20

AvgDigits == 2

DensityDigits == 4

CentralityDigits == 3

MinCommunitySize == 3

(* The values of identifyHubs' topN: small ones, the default and the one   *)
(* computeAllStats passes.                                                 *)
TopNs == (1..MaxTopN) \cup {DefaultTopN, ReportTopN}

(* The values of calculateBetweennessCentrality's sampleSize: none, one,   *)
(* and the default, which the cap at verses.length turns into one sample   *)
(* per verse.                                                              *)
SampleSizes == {0, 1, DefaultSampleSize}

(* The values of detectCommunities' iterations: none, one, and the default *)
(* (which computeAllStats passes too).                                     *)
IterationCounts == {0, 1, DefaultIterations}

-----------------------------------------------------------------------------
(* Sequence helpers *)

null == <<>>

Some(v) == <<v>>

Last(s) == s[Len(s)]

Range(s) == {s[i] : i \in DOMAIN s}

(* All duplicate-free sequences over S of length at most n. *)
RECURSIVE NoDupSeqs(_, _)
NoDupSeqs(S, n) ==
    IF n = 0 THEN {<<>>}
    ELSE {<<>>} \cup
         UNION {{<<x>> \o t : t \in NoDupSeqs(S \ {x}, n - 1)} : x \in S}

-----------------------------------------------------------------------------
(* DataLoader.processData: a verse and the verse list *)

Verse(id, refs) == [id |-> id, refs |-> refs, refCount |-> Len(refs)]

(* Ref lists for verses 1..n, first verse first, with at most budget refs  *)
(* in total.  A ref is the id of a verse or n + 1, an id no verse has.     *)
RECURSIVE RefLists(_, _, _)
RefLists(k, n, budget) ==
    IF k = 0 THEN {<<>>}
    ELSE UNION {{<<r>> \o rest : rest \in RefLists(k - 1, n, budget - Len(r))} :
                    r \in NoDupSeqs(1..(n + 1), budget)}

VersesOf(refLists) == [i \in DOMAIN refLists |-> Verse(i, refLists[i])]

SmallGraphs ==
    UNION {{VersesOf(g) : g \in RefLists(n, n, MaxEdges)} : n \in 1..MaxNodes}

(* Chains 1 - 2 - ... - n, one-way or two-way, with at most one further    *)
(* ref (to a verse or to the dangling id n + 1) put first or last in one   *)
(* verse's ref list.                                                       *)
ChainRefs(n, twoWay) ==
    [i \in 1..n |->
        (IF twoWay /\ i > 1 THEN <<i - 1>> ELSE <<>>) \o
        (IF i < n THEN <<i + 1>> ELSE <<>>)]

WithRef(g, a, b, atFront) ==
    [g EXCEPT ![a] = IF b \in Range(g[a]) THEN g[a]
                     ELSE IF atFront THEN <<b>> \o g[a] ELSE Append(g[a], b)]

ChainGraphs ==
    UNION {UNION {
        {VersesOf(ChainRefs(n, twoWay))} \cup
        {VersesOf(WithRef(ChainRefs(n, twoWay), a, b, atFront)) :
            a \in 1..n, b \in 1..(n + 1), atFront \in BOOLEAN}
        : twoWay \in BOOLEAN} : n \in 1..MaxChain}

(* The graphs of the two randomized computations, whose runs take many    *)
(* steps: the graphs with at most MaxRunEdges refs, and the two-way chains *)
(* 1 - 2 - ... - n.                                                        *)
RunGraphs ==
    UNION {{VersesOf(g) : g \in RefLists(n, n, MaxRunEdges)} : n \in 1..MaxNodes}
    \cup {VersesOf(ChainRefs(n, TRUE)) : n \in 1..MaxRunChain}

(* Chains 2 -> 1, 3 -> 2, ..., n -> n - 1: the later verse has the refs. *)
BackChainRefs(n) == [i \in 1..n |-> IF i > 1 THEN <<i - 1>> ELSE <<>>]

(* The lists of the calls on the cache: the empty list (an empty data      *)
(* file), one verse, and the chains in both directions and two-way.        *)
CacheGraphs ==
    UNION {{VersesOf(ChainRefs(n, FALSE)), VersesOf(ChainRefs(n, TRUE)),
            VersesOf(BackChainRefs(n))} : n \in 0..MaxCacheNodes}

(* The fully connected graphs on 2..MaxComplete verses. *)
CompleteGraph(n) ==
    VersesOf([i \in 1..n |-> SelectSeq([j \in 1..n |-> j], LAMBDA j : j # i)])

CompleteGraphs == {CompleteGraph(n) : n \in 2..MaxComplete}

(* The fully connected graphs and the chains on 1..MaxNodes verses with    *)
(* one more ref, to the id n + 1 that no verse has, first or last in one   *)
(* verse's list.                                                           *)
DanglingGraphs ==
    UNION {{VersesOf(WithRef(g, a, n + 1, atFront)) :
               g \in {[i \in 1..n |-> CompleteGraph(n)[i].refs],
                      ChainRefs(n, TRUE), ChainRefs(n, FALSE)},
               a \in 1..n, atFront \in BOOLEAN} : n \in 1..MaxNodes}

(* Two groups of a and b verses: verses 2..a list verse 1 and verses       *)
(* a + 2..a + b list verse a + 1.                                          *)
TwoStars(a, b) ==
    VersesOf([i \in 1..(a + b) |->
                 IF i = 1 \/ i = a + 1 THEN <<>>
                 ELSE IF i <= a THEN <<1>> ELSE <<a + 1>>])

(* The smallest lists with two groups that detectCommunities keeps: both   *)
(* of the least size it keeps, or one of them one verse larger.            *)
GroupGraphs ==
    {TwoStars(MinCommunitySize, MinCommunitySize),
     TwoStars(MinCommunitySize, MinCommunitySize + 1),
     TwoStars(MinCommunitySize + 1, MinCommunitySize)}

(* Verses 1..n, each listing every verse before it, the nearest first: the *)
(* later a verse is in the list the more refs it has.                      *)
BackCompleteRefs(n) ==
    [i \in 1..n |-> [j \in 1..(i - 1) |-> i - j]]

(* The lists whose rankings are in another order than the list: the        *)
(* two-way chains, and the list whose last verse has the most refs.        *)
RankGraphs ==
    {VersesOf(ChainRefs(n, TRUE)) : n \in 1..MaxRunChain}
    \cup {VersesOf(BackCompleteRefs(MaxNodes))}

-----------------------------------------------------------------------------
(* JavaScript numbers *)

Abs(x) == IF x < 0 THEN -x ELSE x

Sign(x) == IF x < 0 THEN -1 ELSE 1

RECURSIVE Gcd(_, _)
Gcd(a, b) == IF b = 0 THEN a ELSE Gcd(b, a % b)

NaN == [k |-> "nan", n |-> 0, d |-> 1]

Inf(sign) == [k |-> "inf", n |-> sign, d |-> 1]

Ratio(n, d) ==
    LET g == Gcd(Abs(n), Abs(d))
    IN  [k |-> "num", n |-> Sign(d) * (n \div g), d |-> Abs(d) \div g]

Num(n) == [k |-> "num", n |-> n, d |-> 1]

(* x / y *)
JsDiv(x, y) ==
    IF x.k = "nan" \/ y.k = "nan" THEN NaN
    ELSE IF x.k = "inf" THEN (IF y.k = "inf" THEN NaN
                              ELSE Inf(x.n * (IF y.n < 0 THEN -1 ELSE 1)))
    ELSE IF y.k = "inf" THEN Num(0)
    ELSE IF y.n = 0 THEN (IF x.n = 0 THEN NaN ELSE Inf(Sign(x.n)))
    ELSE Ratio(x.n * y.d, x.d * y.n)

(* x * y *)
JsMul(x, y) ==
    IF x.k = "nan" \/ y.k = "nan" THEN NaN
    ELSE IF x.k = "inf" \/ y.k = "inf"
         THEN (IF x.n = 0 \/ y.n = 0 THEN NaN ELSE Inf(Sign(x.n) * Sign(y.n)))
    ELSE Ratio(x.n * y.n, x.d * y.d)

(* x - y *)
JsSub(x, y) ==
    IF x.k = "nan" \/ y.k = "nan" THEN NaN
    ELSE IF x.k = "inf" THEN (IF y.k = "inf" /\ y.n = x.n THEN NaN ELSE x)
    ELSE IF y.k = "inf" THEN Inf(-y.n)
    ELSE Ratio(x.n * y.d - y.n * x.d, x.d * y.d)

(* x > 0; false for NaN *)
JsPositive(x) == x.k # "nan" /\ x.n > 0

(* A mutant of ||: the left operand, whatever it is. *)
JsOrLeft(x, y) == x

(* x || y on numbers: 0 and NaN are falsy *)
JsOr(x, y) == IF x.k = "nan" \/ (x.k = "num" /\ x.n = 0) THEN y ELSE x

(* Math.max(...xs) of integers: -Infinity for no arguments *)
RECURSIVE MaxOfInts(_)
MaxOfInts(xs) ==
    IF Len(xs) = 1 THEN Head(xs)
    ELSE LET m == MaxOfInts(Tail(xs)) IN IF Head(xs) > m THEN Head(xs) ELSE m

(* A mutant of Math.max: its first argument. *)
MathMaxFirst(xs) == IF xs = <<>> THEN Inf(-1) ELSE Num(Head(xs))

MathMax(xs) == IF xs = <<>> THEN Inf(-1) ELSE Num(MaxOfInts(xs))

(* Array.prototype.sort((a, b) => b[key] - a[key]): the sort is stable; a  *)
(* comes after b when the comparator is positive, and a NaN comparator     *)
(* result counts as 0.                                                     *)
(* A mutant of the sort: an element goes before the ones it compares equal *)
(* to, as in a sort that is not stable.                                    *)
RECURSIVE InsertDescBeforeEqual(_, _, _)
InsertDescBeforeEqual(x, sorted, key) ==
    IF sorted = <<>> THEN <<x>>
    ELSE IF ~JsPositive(JsSub(Head(sorted)[key], x[key]))
         THEN <<x>> \o sorted
         ELSE <<Head(sorted)>> \o InsertDescBeforeEqual(x, Tail(sorted), key)

RECURSIVE InsertDesc(_, _, _)
InsertDesc(x, sorted, key) ==
    IF sorted = <<>> THEN <<x>>
    ELSE IF JsPositive(JsSub(x[key], Head(sorted)[key]))
         THEN <<x>> \o sorted
         ELSE <<Head(sorted)>> \o InsertDesc(x, Tail(sorted), key)

RECURSIVE SortDescFrom(_, _, _)
SortDescFrom(xs, sorted, key) ==
    IF xs = <<>> THEN sorted
    ELSE SortDescFrom(Tail(xs), InsertDesc(Head(xs), sorted, key), key)

SortDesc(xs, key) == SortDescFrom(xs, <<>>, key)

(* {...rec, more} *)
Spread(rec, more) ==
    [f \in DOMAIN rec \cup DOMAIN more |-> IF f \in DOMAIN more THEN more[f] ELSE rec[f]]

-----------------------------------------------------------------------------
(* new Map(verses.map(v => [v.id, v])): a later entry overwrites an        *)
(* earlier one with the same id.                                           *)

VerseMap(vs) ==
    [id \in {vs[i].id : i \in DOMAIN vs} |->
        vs[CHOOSE i \in DOMAIN vs :
            vs[i].id = id /\ \A j \in DOMAIN vs : vs[j].id = id => j <= i]]

-----------------------------------------------------------------------------
(* findShortestPath *)

(* The for loop over current.refs. *)
RECURSIVE ExpandRefs(_, _, _, _, _)
ExpandRefs(refs, path, queue, visited, verseMap) ==
    IF refs = <<>> THEN [queue |-> queue, visited |-> visited]
    ELSE LET refId == Head(refs) IN
         IF refId \in visited
         THEN ExpandRefs(Tail(refs), path, queue, visited, verseMap)
         ELSE ExpandRefs(Tail(refs), path,
                         IF refId \in DOMAIN verseMap
                         THEN Append(queue, Append(path, verseMap[refId]))
                         ELSE queue,
                         visited \cup {refId}, verseMap)

(* The mutated while loop: the queue is used as a stack. *)
RECURSIVE BfsLoopLifo(_, _, _, _)
BfsLoopLifo(queue, visited, end, verseMap) ==
    IF queue = <<>> THEN null
    ELSE LET path == Last(queue)
             rest == SubSeq(queue, 1, Len(queue) - 1)
             current == Last(path)
         IN  IF Len(path) > maxDepth THEN BfsLoopLifo(rest, visited, end, verseMap)
             ELSE IF current.id = end.id THEN path
             ELSE LET x == ExpandRefs(current.refs, path, rest, visited, verseMap)
                  IN  BfsLoopLifo(x.queue, x.visited, end, verseMap)

(* The while loop. *)
RECURSIVE BfsLoop(_, _, _, _)
BfsLoop(queue, visited, end, verseMap) ==
    IF queue = <<>> THEN null
    ELSE LET path == Head(queue)
             current == Last(path)
         IN  IF Len(path) > maxDepth THEN BfsLoop(Tail(queue), visited, end, verseMap)
             ELSE IF current.id = end.id THEN path
             ELSE LET x == ExpandRefs(current.refs, path, Tail(queue), visited, verseMap)
                  IN  BfsLoop(x.queue, x.visited, end, verseMap)

findShortestPath(start, end, verseMap) ==
    BfsLoop(<<<<start>>>>, {start.id}, end, verseMap)

-----------------------------------------------------------------------------
(* A call on the cache returns [cache, value, threw]: the cache it leaves, *)
(* the value it returns, and whether it ended in an exception instead.     *)

Returned(cache, value) == [cache |-> cache, value |-> value, threw |-> FALSE]

Threw(cache) == [cache |-> cache, value |-> null, threw |-> TRUE]

RefCounts(vs) == [i \in DOMAIN vs |-> vs[i].refCount]

(* A mutant of the copies: the array the callee sorts and scores is the    *)
(* caller's list itself.                                                   *)
CallerListInPlace(vs, written) == written

(* The caller's list after a call that sorted, scored or flagged the array *)
(* `written`.  That array is always one the callee has built itself, with  *)
(* verses.map(...) (lines 37, 102, 165, 223, 349) or [...verses] (line     *)
(* 272), and a record that gets a new field is built with {...verse}; so   *)
(* no write reaches the list the caller passed, nor a verse in it.         *)
CallerList(vs, written) == vs

-----------------------------------------------------------------------------
(* calculateDegreeCentrality *)

DegreeScores(vs) ==
    LET maxRefs == MathMax(RefCounts(vs))
        Score(verse) ==
            Spread(verse, [degreeCentrality |-> JsDiv(Num(verse.refCount), maxRefs),
                           normalizedDegree |-> verse.refCount])
    IN  SortDesc([i \in DOMAIN vs |-> Score(vs[i])], "degreeCentrality")

calculateDegreeCentrality(cache, vs) ==
    IF cache.centrality # null THEN Returned(cache, cache.centrality[1])
    ELSE LET sorted == DegreeScores(vs)
         IN  Returned([cache EXCEPT !.centrality = Some(sorted)], sorted)

-----------------------------------------------------------------------------
(* calculateClusteringCoefficient *)

(* verse.refs.map(id => verseMap.get(id)).filter(v => v) *)
RECURSIVE Resolve(_, _)
Resolve(refs, verseMap) ==
    IF refs = <<>> THEN <<>>
    ELSE (IF Head(refs) \in DOMAIN verseMap THEN <<verseMap[Head(refs)]>> ELSE <<>>)
         \o Resolve(Tail(refs), verseMap)

(* A mutant of the double loop: j starts at 0 instead of i + 1. *)
RECURSIVE CountConnectionsAllPairs(_, _, _)
CountConnectionsAllPairs(neighbors, i, j) ==
    IF i > Len(neighbors) THEN 0
    ELSE IF j > Len(neighbors) THEN CountConnectionsAllPairs(neighbors, i + 1, 1)
    ELSE (IF neighbors[j].id \in Range(neighbors[i].refs) THEN 1 ELSE 0)
         + CountConnectionsAllPairs(neighbors, i, j + 1)

(* A mutant of the double loop: the test reads neighbors[j].refs. *)
RECURSIVE CountConnectionsReversed(_, _, _)
CountConnectionsReversed(neighbors, i, j) ==
    IF i > Len(neighbors) THEN 0
    ELSE IF j > Len(neighbors) THEN CountConnectionsReversed(neighbors, i + 1, i + 2)
    ELSE (IF neighbors[i].id \in Range(neighbors[j].refs) THEN 1 ELSE 0)
         + CountConnectionsReversed(neighbors, i, j + 1)

(* The double loop from (i, j) on, indices from 1: the pairs i < j with    *)
(* neighbors[i].refs.includes(neighbors[j].id).                            *)
RECURSIVE CountConnections(_, _, _)
CountConnections(neighbors, i, j) ==
    IF i > Len(neighbors) THEN 0
    ELSE IF j > Len(neighbors) THEN CountConnections(neighbors, i + 1, i + 2)
    ELSE (IF neighbors[j].id \in Range(neighbors[i].refs) THEN 1 ELSE 0)
         + CountConnections(neighbors, i, j + 1)

(* A mutant of line 190: the possible connections are counted over all    *)
(* refs, resolved or not.                                                  *)
ClusteringScoreOverAllRefs(verse, verseMap) ==
    IF verse.refCount < 2 THEN Spread(verse, [clusteringCoefficient |-> Num(0)])
    ELSE LET neighbors == Resolve(verse.refs, verseMap) IN
         IF Len(neighbors) < 2 THEN Spread(verse, [clusteringCoefficient |-> Num(0)])
         ELSE LET connections == CountConnections(neighbors, 1, 2)
                  possibleConnections ==
                      JsDiv(Num(verse.refCount * (verse.refCount - 1)), Num(2))
              IN  Spread(verse,
                         [clusteringCoefficient |-> JsDiv(Num(connections), possibleConnections),
                          neighborConnections |-> connections,
                          possibleConnections |-> possibleConnections])

ClusteringScore(verse, verseMap) ==
    IF verse.refCount < 2 THEN Spread(verse, [clusteringCoefficient |-> Num(0)])
    ELSE LET neighbors == Resolve(verse.refs, verseMap) IN
         IF Len(neighbors) < 2 THEN Spread(verse, [clusteringCoefficient |-> Num(0)])
         ELSE LET connections == CountConnections(neighbors, 1, 2)
                  possibleConnections ==
                      JsDiv(Num(Len(neighbors) * (Len(neighbors) - 1)), Num(2))
              IN  Spread(verse,
                         [clusteringCoefficient |-> JsDiv(Num(connections), possibleConnections),
                          neighborConnections |-> connections,
                          possibleConnections |-> possibleConnections])

ClusteringScores(vs) ==
    LET verseMap == VerseMap(vs)
        Score(verse) == ClusteringScore(verse, verseMap)
    IN  SortDesc([i \in DOMAIN vs |-> Score(vs[i])], "clusteringCoefficient")

calculateClusteringCoefficient(cache, vs) ==
    IF cache.clustering # null THEN Returned(cache, cache.clustering[1])
    ELSE LET sorted == ClusteringScores(vs)
         IN  Returned([cache EXCEPT !.clustering = Some(sorted)], sorted)

-----------------------------------------------------------------------------
(* identifyHubs *)

(* Array.prototype.find(v => v.id === id): the first match, or null for    *)
(* undefined.                                                              *)
Find(xs, id) ==
    IF \E i \in DOMAIN xs : xs[i].id = id
    THEN Some(xs[CHOOSE i \in DOMAIN xs :
                    xs[i].id = id /\ \A j \in DOMAIN xs : xs[j].id = id => i <= j])
    ELSE null

Min(a, b) == IF a < b THEN a ELSE b

(* for (i = 0; i < Math.min(topN, sorted.length); i++) sorted[i].isHub = true *)
MarkTop(sorted, topN) ==
    [i \in DOMAIN sorted |->
        IF i <= Min(topN, Len(sorted)) THEN [sorted[i] EXCEPT !.isHub = TRUE]
        ELSE sorted[i]]

HubScores(vs, centrality, clustering) ==
    LET Score(verse) ==
            LET centralityData == Find(centrality, verse.id)[1]
                clusteringData == Find(clustering, verse.id)[1]
            IN  Spread(verse,
                       [hubScore |-> JsMul(centralityData.degreeCentrality,
                                           JsSub(Num(1), clusteringData.clusteringCoefficient)),
                        isHub |-> FALSE])
    IN  SortDesc([i \in DOMAIN vs |-> Score(vs[i])], "hubScore")

identifyHubs(cache, vs, topN) ==
    IF cache.hubs # null THEN Returned(cache, cache.hubs[1])
    ELSE LET c1 == calculateDegreeCentrality(cache, vs)
             c2 == calculateClusteringCoefficient(c1.cache, vs)
         IN  \* reading a property of undefined throws a TypeError
             IF \E i \in DOMAIN vs : Find(c1.value, vs[i].id) = null
                                     \/ Find(c2.value, vs[i].id) = null
             THEN Threw(c2.cache)
             ELSE LET sorted == MarkTop(HubScores(vs, c1.value, c2.value), topN)
                  IN  Returned([c2.cache EXCEPT !.hubs = Some(sorted)], sorted)

-----------------------------------------------------------------------------
(* calculateBetweennessCentrality.  Its sampling loop draws two random     *)
(* verses per iteration, so the call is a sequence of steps: it starts,    *)
(* runs one loop iteration per step and ends.  No other call runs before   *)
(* it has ended.                                                           *)

(* Lines 65-72: the locals before the loop. *)
BetweennessLocals(vs, sampleSize) ==
    [sampleSize |-> sampleSize,
     betweenness |-> [id \in {vs[i].id : i \in DOMAIN vs} |-> 0],
     sample |-> Min(sampleSize, Len(vs)),
     foundPaths |-> 0,
     i |-> 0,
     source |-> null, target |-> null, path |-> null]

(* A mutant of the inner loop: j starts at 0, so the endpoints count too.  *)
RECURSIVE IncrementAll(_, _, _)
IncrementAll(betweenness, path, j) ==
    IF j > Len(path) THEN betweenness
    ELSE IncrementAll([betweenness EXCEPT ![path[j].id] = @ + 1], path, j + 1)

IncrementFromStart(betweenness, path, j) == IncrementAll(betweenness, path, 1)

(* Lines 90-93: the inner loop from index j on (indices from 1, so the     *)
(* loop runs over 2..Len(path) - 1).                                       *)
RECURSIVE IncrementInterior(_, _, _)
IncrementInterior(betweenness, path, j) ==
    IF j >= Len(path) THEN betweenness
    ELSE IncrementInterior([betweenness EXCEPT ![path[j].id] = @ + 1], path, j + 1)

(* Lines 80-94: one iteration with the verses drawn. *)
BetweennessIteration(b, source, target, verseMap) ==
    IF source.id = target.id
    THEN [b EXCEPT !.source = Some(source), !.target = Some(target), !.path = null,
                   !.i = @ + 1]
    ELSE LET path == findShortestPath(source, target, verseMap) IN
         IF path # null /\ Len(path) > 2
         THEN [b EXCEPT !.source = Some(source), !.target = Some(target), !.path = path,
                        !.foundPaths = @ + 1,
                        !.betweenness = IncrementInterior(@, path, 2),
                        !.i = @ + 1]
         ELSE [b EXCEPT !.source = Some(source), !.target = Some(target), !.path = path,
                        !.i = @ + 1]

(* Math.max(...betweenness.values()): the map holds one entry per verse,  *)
(* in list order.                                                          *)
MaxBetweenness(vs, betweenness) ==
    MathMax([i \in DOMAIN vs |-> betweenness[vs[i].id]])

(* Lines 100-110: normalize and sort. *)
BetweennessScores(vs, betweenness) ==
    LET maxBetweenness == JsOr(MaxBetweenness(vs, betweenness), Num(1))
        Score(verse) ==
            Spread(verse,
                   [betweennessCentrality |->
                        JsDiv(Num(betweenness[verse.id]), maxBetweenness),
                    betweennessScore |-> betweenness[verse.id]])
    IN  SortDesc([i \in DOMAIN vs |-> Score(vs[i])], "betweennessCentrality")

-----------------------------------------------------------------------------
(* detectCommunities.  Each iteration visits the verses in a random order, *)
(* so the call is a sequence of steps: it starts, and per iteration it     *)
(* shuffles, visits one verse per step and tests the change counter; then  *)
(* it groups and ends.  No other call runs before it has ended.            *)

(* The orders [...verses].sort(() => Math.random() - 0.5) can leave the    *)
(* list in: the comparator is random, so every permutation.                *)
RECURSIVE Orderings(_)
Orderings(S) ==
    IF S = {} THEN {<<>>}
    ELSE UNION {{<<x>> \o t : t \in Orderings(S \ {x})} : x \in S}

Shuffles(vs) == {[i \in DOMAIN vs |-> vs[p[i]]] : p \in Orderings(DOMAIN vs)}

(* Lines 262-268: the locals before the first iteration. *)
CommunityLocals(vs, iterations) ==
    [iterations |-> iterations,
     labels |-> [id \in {vs[i].id : i \in DOMAIN vs} |-> id],
     iter |-> 0,
     changed |-> 0,
     shuffled |-> <<>>,
     converged |-> FALSE]

(* labelCounts.set(label, (labelCounts.get(label) || 0) + 1) on a Map kept *)
(* as its entries <<label, count>> in insertion order.                     *)
CountLabel(labelCounts, label) ==
    IF \E k \in DOMAIN labelCounts : labelCounts[k][1] = label
    THEN [k \in DOMAIN labelCounts |->
            IF labelCounts[k][1] = label THEN <<label, labelCounts[k][2] + 1>>
            ELSE labelCounts[k]]
    ELSE Append(labelCounts, <<label, 1>>)

(* A mutant of the tally: the ref's id is counted, not its label. *)
RECURSIVE TallyRefIds(_, _, _)
TallyRefIds(refs, labels, labelCounts) ==
    IF refs = <<>> THEN labelCounts
    ELSE TallyRefIds(Tail(refs), labels, CountLabel(labelCounts, Head(refs)))

(* Lines 280-285: labels.get(refId) is undefined for an id that is not a   *)
(* verse's, and every label is a truthy string.                            *)
RECURSIVE Tally(_, _, _)
Tally(refs, labels, labelCounts) ==
    IF refs = <<>> THEN labelCounts
    ELSE Tally(Tail(refs), labels,
               IF Head(refs) \in DOMAIN labels
               THEN CountLabel(labelCounts, labels[Head(refs)])
               ELSE labelCounts)

(* A mutant of line 292: count >= maxCount, so the last label with the     *)
(* highest count wins.                                                     *)
RECURSIVE MostCommonLast(_, _, _)
MostCommonLast(labelCounts, maxCount, maxLabel) ==
    IF labelCounts = <<>> THEN maxLabel
    ELSE IF Head(labelCounts)[2] >= maxCount
         THEN MostCommonLast(Tail(labelCounts), Head(labelCounts)[2], Head(labelCounts)[1])
         ELSE MostCommonLast(Tail(labelCounts), maxCount, maxLabel)

(* Lines 291-296: the first label with the highest count. *)
RECURSIVE MostCommon(_, _, _)
MostCommon(labelCounts, maxCount, maxLabel) ==
    IF labelCounts = <<>> THEN maxLabel
    ELSE IF Head(labelCounts)[2] > maxCount
         THEN MostCommon(Tail(labelCounts), Head(labelCounts)[2], Head(labelCounts)[1])
         ELSE MostCommon(Tail(labelCounts), maxCount, maxLabel)

(* Lines 275-301: the visit of one verse. *)
Visit(c, verse) ==
    IF verse.refCount = 0 THEN c
    ELSE LET labelCounts == Tally(verse.refs, c.labels, <<>>)
             maxLabel == MostCommon(labelCounts, 0, c.labels[verse.id])
         IN  IF c.labels[verse.id] # maxLabel
             THEN [c EXCEPT !.labels[verse.id] = maxLabel, !.changed = @ + 1]
             ELSE c

(* Lines 313-321: the members of each label in list order, the labels in   *)
(* the order of their first member.                                        *)
RECURSIVE GroupByLabel(_, _, _)
GroupByLabel(vs, labels, communities) ==
    IF vs = <<>> THEN communities
    ELSE LET label == labels[Head(vs).id] IN
         GroupByLabel(Tail(vs), labels,
            IF \E k \in DOMAIN communities : communities[k][1] = label
            THEN [k \in DOMAIN communities |->
                    IF communities[k][1] = label
                    THEN <<label, Append(communities[k][2], Head(vs))>>
                    ELSE communities[k]]
            ELSE Append(communities, <<label, <<Head(vs)>>>>))

(* sort((a, b) => b[1].length - a[1].length), stable *)
RECURSIVE InsertBySize(_, _)
InsertBySize(x, sorted) ==
    IF sorted = <<>> THEN <<x>>
    ELSE IF Len(x[2]) - Len(Head(sorted)[2]) > 0
         THEN <<x>> \o sorted
         ELSE <<Head(sorted)>> \o InsertBySize(x, Tail(sorted))

(* A mutant of the sort: the groups stay in the order of their first       *)
(* member.                                                                 *)
SortBySizeKeepOrder(xs, sorted) == sorted \o xs

RECURSIVE SortBySizeFrom(_, _)
SortBySizeFrom(xs, sorted) ==
    IF xs = <<>> THEN sorted
    ELSE SortBySizeFrom(Tail(xs), InsertBySize(Head(xs), sorted))

(* Lines 313-332: the result object. *)
CommunityResult(vs, labels) ==
    LET communities == GroupByLabel(vs, labels, <<>>)
        significantCommunities ==
            SortBySizeFrom(SelectSeq(communities, LAMBDA e : Len(e[2]) >= MinCommunitySize), <<>>)
    IN  [communities |-> significantCommunities,
         communityCount |-> Len(significantCommunities),
         labels |-> labels]

-----------------------------------------------------------------------------
(* getNetworkStatistics *)

(* undefined where a number is expected: an index past the end of an array *)
undefined == [k |-> "undefined", n |-> 0, d |-> 1]

(* xs.slice(0, n) *)
Slice(xs, n) == SubSeq(xs, 1, Min(n, Len(xs)))

RECURSIVE Pow10(_)
Pow10(digits) == IF digits = 0 THEN 1 ELSE 10 * Pow10(digits - 1)

(* x.toFixed(digits), a string: "NaN", "Infinity", "-Infinity", or the     *)
(* decimal with `digits` digits after the point that is nearest to x, the  *)
(* larger one when two are equally near.  The decimal is kept as its sign  *)
(* and its digits read as one integer: (1/3).toFixed(2) = "0.33" is        *)
(* [text |-> "decimal", sign |-> 1, scaled |-> 33, digits |-> 2].          *)
ToFixed(x, digits) ==
    IF x.k = "nan" THEN [text |-> "NaN", sign |-> 1, scaled |-> 0, digits |-> digits]
    ELSE IF x.k = "inf"
         THEN [text |-> "Infinity", sign |-> x.n, scaled |-> 0, digits |-> digits]
    ELSE [text |-> "decimal", sign |-> Sign(x.n),
          scaled |-> (2 * Abs(x.n) * Pow10(digits) + x.d) \div (2 * x.d),
          digits |-> digits]

(* verses.reduce((sum, v) => sum + v.refCount, 0) *)
RECURSIVE TotalRefs(_)
TotalRefs(vs) == IF vs = <<>> THEN 0 ELSE Head(vs).refCount + TotalRefs(Tail(vs))

(* A mutant of line 349: the ref counts are left in list order. *)
RefCountsInListOrder(vs) == [i \in DOMAIN vs |-> [value |-> Num(vs[i].refCount)]]

(* verses.map(v => v.refCount).sort((a, b) => b - a) *)
SortedRefCounts(vs) == SortDesc([i \in DOMAIN vs |-> [value |-> Num(vs[i].refCount)]], "value")

(* refCounts[index], the index counted from 0 *)
RefCountAt(refCounts, index) ==
    IF index + 1 \in DOMAIN refCounts THEN refCounts[index + 1].value ELSE undefined

(* Lines 369-373.  An entry's verse field is the text of the verse, which  *)
(* the verse records leave out; the entry carries the verse's id for it.   *)
TopVerses(centrality) ==
    LET topVerses == Slice(Slice(centrality, TopVersesCount), TopVersesCount)
    IN  [i \in DOMAIN topVerses |->
            [verse |-> topVerses[i].id,
             refs |-> topVerses[i].refCount,
             centrality |-> ToFixed(topVerses[i].degreeCentrality, CentralityDigits)]]

getNetworkStatistics(cache, vs) ==
    LET totalRefs == TotalRefs(vs)
        avgRefs == JsDiv(Num(totalRefs), Num(Len(vs)))
        refCounts == SortedRefCounts(vs)
        medianRefs == RefCountAt(refCounts, Len(vs) \div 2)
        maxRefs == RefCountAt(refCounts, 0)
        centrality == calculateDegreeCentrality(cache, vs)
        possibleConnections == JsDiv(Num(Len(vs) * (Len(vs) - 1)), Num(2))
        actualConnections == JsDiv(Num(totalRefs), Num(2))
        density == JsDiv(actualConnections, possibleConnections)
    IN  Returned(centrality.cache,
                 [nodeCount |-> Len(vs),
                  edgeCount |-> totalRefs,
                  avgDegree |-> ToFixed(avgRefs, AvgDigits),
                  medianDegree |-> medianRefs,
                  maxDegree |-> maxRefs,
                  density |-> <<ToFixed(JsMul(density, Num(100)), DensityDigits), "%">>,
                  topVerses |-> TopVerses(centrality.value)])

-----------------------------------------------------------------------------
(* computeAllStats.  It evaluates the six entries of stats in order; two   *)
(* of them run a randomized loop when their slot is empty, so the call is  *)
(* a sequence of steps: up to the sampling loop, the loop's iterations,    *)
(* from there up to the propagation loop, its steps, and the end.  No      *)
(* other call runs before it has ended.                                    *)

(* new Date(): which instant it holds is read by nothing. *)
NewDate == "Date"

(* A mutant of clearCache: the hubs slot is left out of the reset. *)
clearCacheKeepsHubs ==
    [centrality |-> null, betweenness |-> null, clustering |-> null,
     communities |-> null, hubs |-> statsCache.hubs, lastComputed |-> null]

(* clearCache *)
clearCache ==
    [centrality |-> null, betweenness |-> null, clustering |-> null,
     communities |-> null, hubs |-> null, lastComputed |-> null]

-----------------------------------------------------------------------------
(* exportStats: JSON.stringify(stats, null, 2), and JSON.parse of the text. *)
(* The text is kept as the tree of the values it spells: [t, v] with t the *)
(* kind of JSON value and v its content (the members of an object as a     *)
(* function of their keys).                                                *)

JsonNull == [t |-> "null"]

JsonString(str) == [t |-> "string", v |-> str]

JsonBoolean(b) == [t |-> "boolean", v |-> b]

(* An integer-valued number. *)
JsonInt(n) == [t |-> "number", v |-> n]

(* A number: NaN and the infinities are written as null. *)
JsonNumber(x) == IF x.k = "num" THEN [t |-> "number", v |-> x] ELSE JsonNull

JsonArray(items) == [t |-> "array", v |-> items]

JsonObject(members) == [t |-> "object", v |-> members]

(* A Map has no enumerable own property: it is written as {}. *)
JsonOfMap(map) == JsonObject([f \in {} |-> JsonNull])

(* The fields of a verse record and of the records the rankings add. *)
JsonOfField(f, value) ==
    CASE f = "id" -> JsonString(value)
      [] f = "refs" -> JsonArray([i \in DOMAIN value |-> JsonString(value[i])])
      [] f \in {"refCount", "normalizedDegree", "betweennessScore", "neighborConnections"}
            -> JsonInt(value)
      [] f = "isHub" -> JsonBoolean(value)
      [] OTHER -> JsonNumber(value)

JsonOfRecord(rec) == JsonObject([f \in DOMAIN rec |-> JsonOfField(f, rec[f])])

JsonOfRecords(xs) == JsonArray([i \in DOMAIN xs |-> JsonOfRecord(xs[i])])

(* The value of getNetworkStatistics; a property whose value is undefined  *)
(* is left out.                                                            *)
JsonOfNetwork(network) ==
    JsonObject(
        [f \in {g \in DOMAIN network :
                   g \in {"medianDegree", "maxDegree"} => network[g] # undefined} |->
            CASE f \in {"nodeCount", "edgeCount"} -> JsonInt(network[f])
              [] f \in {"avgDegree", "density"} -> JsonString(network[f])
              [] f \in {"medianDegree", "maxDegree"} -> JsonNumber(network[f])
              [] f = "topVerses" ->
                    JsonArray([i \in DOMAIN network.topVerses |->
                        JsonObject([verse |-> JsonString(network.topVerses[i].verse),
                                    refs |-> JsonInt(network.topVerses[i].refs),
                                    centrality |-> JsonString(network.topVerses[i].centrality)])])])

(* The value of detectCommunities. *)
JsonOfCommunities(result) ==
    JsonObject(
        [communities |->
            JsonArray([k \in DOMAIN result.communities |->
                JsonArray(<<JsonString(result.communities[k][1]),
                            JsonOfRecords(result.communities[k][2])>>)]),
         communityCount |-> JsonInt(result.communityCount),
         labels |-> JsonOfMap(result.labels)])

(* Line 426, for the object computeAllStats returns. *)
JsonStringify(stats) ==
    JsonObject([network |-> JsonOfNetwork(stats.network),
                centrality |-> JsonOfRecords(stats.centrality),
                betweenness |-> JsonOfRecords(stats.betweenness),
                clustering |-> JsonOfRecords(stats.clustering),
                hubs |-> JsonOfRecords(stats.hubs),
                communities |-> JsonOfCommunities(stats.communities)])

(* JSON.parse(text): objects and arrays are built anew, null is null. *)
RECURSIVE JsonParse(_)
JsonParse(doc) ==
    CASE doc.t = "null" -> null
      [] doc.t = "array" -> [i \in DOMAIN doc.v |-> JsonParse(doc.v[i])]
      [] doc.t = "object" -> [f \in DOMAIN doc.v |-> JsonParse(doc.v[f])]
      [] OTHER -> doc.v

-----------------------------------------------------------------------------
(* StatsPanel (src/statsPanel.js).  An element is kept as what the code    *)
(* changes of it: whether its class list holds 'hidden', and the text of   *)
(* the loading paragraph; the content of the tab panes as the report       *)
(* displayStats was last given.  An invocation of computeAndDisplay that   *)
(* has not finished is kept as the place it is at: "wait200" and "wait100" *)
(* at its two awaits, "computing" from the end of the second await on.     *)

MaxInvocations == 2

LoadingText == "Computing statistics..."

LongText == "Computing statistics... This may take 10-30 seconds..."

ErrorText == "Error computing statistics. Check console."

(* Lines 31-76 and line 11: the panel as init() leaves it. *)
createPanel ==
    [hidden |-> TRUE,
     loadingHidden |-> FALSE,
     resultsHidden |-> TRUE,
     loadingText |-> LoadingText,
     currentStats |-> null,
     shown |-> null,
     calls |-> <<>>,
     finished |-> "none"]

(* An invocation is between its second await and its end. *)
Computing(p) == \E k \in DOMAIN p.calls : p.calls[k] = "computing"

(* The invocations without the one that has reached its end. *)
Finished(calls) == SelectSeq(calls, LAMBDA c : c # "computing")

(* A mutant of lines 171-172: the invocation starts without touching the   *)
(* two elements.                                                           *)
computeAndDisplayKeepsPanes(p) ==
    [p EXCEPT !.hidden = FALSE, !.calls = Append(@, "wait200")]

(* Lines 152-175: computeAndDisplay up to its first await. *)
computeAndDisplay(p) ==
    [p EXCEPT !.hidden = FALSE,
              !.loadingHidden = FALSE,
              !.resultsHidden = TRUE,
              !.calls = Append(@, "wait200")]

(* Lines 186-195, after computeAllStats has returned stats; displayStats   *)
(* reads fields that every report has and elements that createPanel made.  *)
Displayed(p, stats) ==
    [p EXCEPT !.currentStats = Some(stats),
              !.shown = Some(stats),
              !.loadingHidden = TRUE,
              !.resultsHidden = FALSE,
              !.calls = Finished(@),
              !.finished = "displayed"]

(* Lines 196-199: the catch block. *)
Caught(p) ==
    [p EXCEPT !.loadingText = ErrorText,
              !.calls = Finished(@),
              !.finished = "caught"]

-----------------------------------------------------------------------------
(* State *)

EmptyCache ==
    [centrality |-> null, betweenness |-> null, clustering |-> null,
     communities |-> null, hubs |-> null, lastComputed |-> null]

NoCall == [op |-> "none", args |-> <<>>, threw |-> FALSE, value |-> null]

InitWith(graphs) ==
    /\ verses \in graphs
    /\ statsCache = EmptyCache
    /\ pc = "idle"
    /\ bw = <<>>
    /\ cd = <<>>
    /\ ret = NoCall
    /\ all = <<>>
    /\ panel = createPanel

(* NetworkStats.findShortestPath(start, end, verseMap), called as          *)
(* calculateBetweennessCentrality calls it: two verses of the list and the *)
(* list's map.                                                             *)
FindShortestPath ==
    /\ pc = "idle"
    /\ \E s \in DOMAIN verses, t \in DOMAIN verses :
         ret' = [op |-> "findShortestPath", start |-> verses[s], end |-> verses[t],
                 threw |-> FALSE,
                 value |-> findShortestPath(verses[s], verses[t], VerseMap(verses))]
    /\ UNCHANGED <<verses, statsCache, pc, bw, cd, all, panel>>

(* A call that runs to its end in one step. *)
Call(op, args, r) ==
    /\ statsCache' = r.cache
    /\ ret' = [op |-> op, args |-> args, threw |-> r.threw, value |-> r.value]
    /\ verses' = CallerList(verses, r.value)
    /\ UNCHANGED <<pc, bw, cd, all, panel>>

CalculateDegreeCentrality ==
    /\ pc = "idle"
    /\ Call("calculateDegreeCentrality", <<>>, calculateDegreeCentrality(statsCache, verses))

CalculateClusteringCoefficient ==
    /\ pc = "idle"
    /\ Call("calculateClusteringCoefficient", <<>>,
            calculateClusteringCoefficient(statsCache, verses))

IdentifyHubs ==
    /\ pc = "idle"
    /\ \E topN \in TopNs :
         Call("identifyHubs", <<topN>>, identifyHubs(statsCache, verses, topN))

ClearCache ==
    /\ pc = "idle"
    /\ statsCache' = clearCache
    /\ ret' = [op |-> "clearCache", args |-> <<>>, threw |-> FALSE, value |-> null]
    /\ UNCHANGED <<verses, pc, bw, cd, all, panel>>

(* calculateBetweennessCentrality(verses, sampleSize) is called: the       *)
(* cached result is returned, or the sampling starts.                      *)
BetweennessBegin ==
    /\ pc = "idle"
    /\ \E sampleSize \in SampleSizes :
         IF statsCache.betweenness # null
         THEN /\ ret' = [op |-> "calculateBetweennessCentrality", args |-> <<sampleSize>>,
                         threw |-> FALSE, value |-> statsCache.betweenness[1]]
              /\ UNCHANGED <<verses, statsCache, pc, bw, cd, all, panel>>
         ELSE /\ pc' = "betweenness"
              /\ bw' = BetweennessLocals(verses, sampleSize)
              /\ UNCHANGED <<verses, statsCache, cd, ret, all, panel>>

(* One iteration of the sampling loop: Math.floor(Math.random() *          *)
(* verses.length) is any index of the list, twice.                         *)
BetweennessSample ==
    /\ pc = "betweenness"
    /\ bw.i < bw.sample
    /\ \E s \in DOMAIN verses, t \in DOMAIN verses :
         bw' = BetweennessIteration(bw, verses[s], verses[t], VerseMap(verses))
    /\ UNCHANGED <<verses, statsCache, pc, cd, ret, all, panel>>

(* After the loop: normalize, sort, fill the cache slot and return. *)
BetweennessEnd ==
    /\ pc = "betweenness"
    /\ bw.i >= bw.sample
    /\ LET sorted == BetweennessScores(verses, bw.betweenness) IN
         /\ verses' = CallerList(verses, sorted)
         /\ statsCache' = [statsCache EXCEPT !.betweenness = Some(sorted)]
         /\ ret' = [op |-> "calculateBetweennessCentrality", args |-> <<bw.sampleSize>>,
                    threw |-> FALSE, value |-> sorted]
    /\ pc' = "idle"
    /\ bw' = <<>>
    /\ UNCHANGED <<cd, all, panel>>

(* A mutant of line 258: the slot is not looked at. *)
CommunitiesBeginUncached ==
    /\ pc = "idle"
    /\ \E iterations \in IterationCounts :
         /\ pc' = "cd_loop"
         /\ cd' = CommunityLocals(verses, iterations)
         /\ UNCHANGED <<verses, statsCache, bw, ret, all, panel>>

(* detectCommunities(verses, iterations) is called: the cached result is   *)
(* returned, or the propagation starts.                                    *)
CommunitiesBegin ==
    /\ pc = "idle"
    /\ \E iterations \in IterationCounts :
         IF statsCache.communities # null
         THEN /\ ret' = [op |-> "detectCommunities", args |-> <<iterations>>,
                         threw |-> FALSE, value |-> statsCache.communities[1]]
              /\ UNCHANGED <<verses, statsCache, pc, bw, cd, all, panel>>
         ELSE /\ pc' = "cd_loop"
              /\ cd' = CommunityLocals(verses, iterations)
              /\ UNCHANGED <<verses, statsCache, bw, ret, all, panel>>

(* Lines 268-272: an iteration starts. *)
CommunitiesShuffle ==
    /\ pc = "cd_loop"
    /\ ~cd.converged
    /\ cd.iter < cd.iterations
    /\ \E shuffled \in Shuffles(verses) :
         /\ cd' = [cd EXCEPT !.changed = 0, !.shuffled = shuffled]
         /\ verses' = CallerList(verses, shuffled)
    /\ pc' = "cd_for"
    /\ UNCHANGED <<statsCache, bw, ret, all, panel>>

(* Lines 274-302: the next verse of the shuffled list is visited. *)
CommunitiesVisit ==
    /\ pc = "cd_for"
    /\ cd.shuffled # <<>>
    /\ cd' = [Visit(cd, Head(cd.shuffled)) EXCEPT !.shuffled = Tail(cd.shuffled)]
    /\ UNCHANGED <<verses, statsCache, pc, bw, ret, all, panel>>

(* A mutant of lines 306-309: no break, the loop goes on to its budget. *)
CommunitiesEndIterationNoBreak ==
    /\ pc = "cd_for"
    /\ cd.shuffled = <<>>
    /\ cd' = [cd EXCEPT !.iter = @ + 1]
    /\ pc' = "cd_loop"
    /\ UNCHANGED <<verses, statsCache, bw, ret, all, panel>>

(* Lines 306-310: the iteration ends; with no change the loop is left. *)
CommunitiesEndIteration ==
    /\ pc = "cd_for"
    /\ cd.shuffled = <<>>
    /\ cd' = IF cd.changed = 0 THEN [cd EXCEPT !.converged = TRUE]
             ELSE [cd EXCEPT !.iter = @ + 1]
    /\ pc' = "cd_loop"
    /\ UNCHANGED <<verses, statsCache, bw, ret, all, panel>>

(* After the loop: group, filter, sort, fill the cache slot and return. *)
CommunitiesEnd ==
    /\ pc = "cd_loop"
    /\ cd.converged \/ cd.iter >= cd.iterations
    /\ LET result == CommunityResult(verses, cd.labels) IN
         /\ statsCache' = [statsCache EXCEPT !.communities = Some(result)]
         /\ ret' = [op |-> "detectCommunities", args |-> <<cd.iterations>>,
                    threw |-> FALSE, value |-> result]
    /\ pc' = "idle"
    /\ cd' = <<>>
    /\ UNCHANGED <<verses, bw, all, panel>>

(* NetworkStats.getNetworkStatistics(verses) *)
GetNetworkStatistics ==
    /\ pc = "idle"
    /\ \E r \in {getNetworkStatistics(statsCache, verses)} :
         /\ statsCache' = r.cache
         /\ ret' = [op |-> "getNetworkStatistics", args |-> <<>>,
                    threw |-> FALSE, value |-> r.value]
         /\ verses' = CallerList(verses, r.cache.centrality[1])
    /\ UNCHANGED <<pc, bw, cd, all, panel>>

(* Lines 404-405: computeAllStats returns stats; when computeAndDisplay    *)
(* has called it, that invocation runs on to its end.                      *)
AllReturn(cache, stats) ==
    /\ statsCache' = [cache EXCEPT !.lastComputed = Some(NewDate)]
    /\ ret' = [op |-> "computeAllStats", args |-> <<>>, threw |-> FALSE, value |-> stats]
    /\ pc' = "idle"
    /\ bw' = <<>>
    /\ cd' = <<>>
    /\ all' = <<>>
    /\ panel' = IF Computing(panel) THEN Displayed(panel, stats) ELSE panel

(* An exception of identifyHubs leaves computeAllStats at line 395; when   *)
(* computeAndDisplay has called it, that invocation catches it.            *)
AllThrow(cache) ==
    /\ statsCache' = cache
    /\ ret' = [op |-> "computeAllStats", args |-> <<>>, threw |-> TRUE, value |-> null]
    /\ pc' = "idle"
    /\ bw' = <<>>
    /\ cd' = <<>>
    /\ all' = <<>>
    /\ panel' = IF Computing(panel) THEN Caught(panel) ELSE panel

(* Lines 393-396, from the return of calculateBetweennessCentrality up to  *)
(* the propagation loop of detectCommunities, or to the end when the       *)
(* communities are cached.  (\E x \in {e} names the value of e.)           *)
AllAfterBetweenness(cache, stats, betweenness) ==
    \E clustering \in {calculateClusteringCoefficient(cache, verses)} :
    \E hubs \in {identifyHubs(clustering.cache, verses, ReportTopN)} :
    \E s \in {Spread(stats,
                 [betweenness |-> Slice(betweenness, ReportCount),
                  clustering |-> Slice(clustering.value, ReportCount),
                  hubs |-> SelectSeq(hubs.value, LAMBDA v : v.isHub)])} :
        IF hubs.threw THEN AllThrow(hubs.cache)
        ELSE IF hubs.cache.communities # null
        THEN AllReturn(hubs.cache, Spread(s, [communities |-> hubs.cache.communities[1]]))
        ELSE /\ pc' = "all_cd_loop"
             /\ cd' = CommunityLocals(verses, ReportIterations)
             /\ all' = s
             /\ statsCache' = hubs.cache
             /\ bw' = <<>>
             /\ UNCHANGED <<ret, panel>>

(* NetworkStats.computeAllStats(verses) is called: lines 391-393, up to    *)
(* the sampling loop, or further when the betweenness is cached.           *)
ComputeAllStatsBegin ==
    /\ pc = "idle"
    /\ \E network \in {getNetworkStatistics(statsCache, verses)} :
       \E centrality \in {calculateDegreeCentrality(network.cache, verses)} :
       \E stats \in {[network |-> network.value,
                      centrality |-> Slice(centrality.value, ReportCount)]} :
         /\ verses' = CallerList(verses, centrality.value)
         /\ IF centrality.cache.betweenness # null
            THEN AllAfterBetweenness(centrality.cache, stats,
                                     centrality.cache.betweenness[1])
            ELSE /\ pc' = "all_betweenness"
                 /\ bw' = BetweennessLocals(verses, ReportSampleSize)
                 /\ all' = stats
                 /\ statsCache' = centrality.cache
                 /\ UNCHANGED <<cd, ret, panel>>

AllBetweennessSample ==
    /\ pc = "all_betweenness"
    /\ bw.i < bw.sample
    /\ \E s \in DOMAIN verses, t \in DOMAIN verses :
         bw' = BetweennessIteration(bw, verses[s], verses[t], VerseMap(verses))
    /\ UNCHANGED <<verses, statsCache, pc, cd, ret, all, panel>>

AllBetweennessEnd ==
    /\ pc = "all_betweenness"
    /\ bw.i >= bw.sample
    /\ \E sorted \in {BetweennessScores(verses, bw.betweenness)} :
         /\ verses' = CallerList(verses, sorted)
         /\ AllAfterBetweenness([statsCache EXCEPT !.betweenness = Some(sorted)],
                                all, sorted)

AllCommunitiesShuffle ==
    /\ pc = "all_cd_loop"
    /\ ~cd.converged
    /\ cd.iter < cd.iterations
    /\ \E shuffled \in Shuffles(verses) :
         /\ cd' = [cd EXCEPT !.changed = 0, !.shuffled = shuffled]
         /\ verses' = CallerList(verses, shuffled)
    /\ pc' = "all_cd_for"
    /\ UNCHANGED <<statsCache, bw, ret, all, panel>>

AllCommunitiesVisit ==
    /\ pc = "all_cd_for"
    /\ cd.shuffled # <<>>
    /\ cd' = [Visit(cd, Head(cd.shuffled)) EXCEPT !.shuffled = Tail(cd.shuffled)]
    /\ UNCHANGED <<verses, statsCache, pc, bw, ret, all, panel>>

AllCommunitiesEndIteration ==
    /\ pc = "all_cd_for"
    /\ cd.shuffled = <<>>
    /\ cd' = IF cd.changed = 0 THEN [cd EXCEPT !.converged = TRUE]
             ELSE [cd EXCEPT !.iter = @ + 1]
    /\ pc' = "all_cd_loop"
    /\ UNCHANGED <<verses, statsCache, bw, ret, all, panel>>

(* Lines 312-337 and 404-405: detectCommunities returns to computeAllStats, *)
(* which returns.                                                          *)
AllCommunitiesEnd ==
    /\ pc = "all_cd_loop"
    /\ cd.converged \/ cd.iter >= cd.iterations
    /\ \E result \in {CommunityResult(verses, cd.labels)} :
         AllReturn([statsCache EXCEPT !.communities = Some(result)],
                   Spread(all, [communities |-> result]))
    /\ UNCHANGED verses

(* DataLoader.loadData() has loaded another data file: processData builds  *)
(* a new list.  It does not touch the statistics cache.                    *)
LoadData ==
    /\ pc = "idle"
    /\ verses' \in CacheGraphs \ {verses}
    /\ ret' = [op |-> "loadData", args |-> <<>>, threw |-> FALSE, value |-> null]
    /\ UNCHANGED <<statsCache, pc, bw, cd, all, panel>>

(* NetworkStats.exportStats(stats), given the report computeAllStats has   *)
(* just returned (the panel's Export button passes the report it keeps):   *)
(* value is the text put in the downloaded file.                           *)
ExportStats ==
    /\ pc = "idle"
    /\ ret.op = "computeAllStats"
    /\ ~ret.threw
    /\ ret' = [op |-> "exportStats", args |-> <<ret.value>>, threw |-> FALSE,
               value |-> JsonStringify(ret.value)]
    /\ UNCHANGED <<verses, statsCache, pc, bw, cd, all, panel>>

InitPath == InitWith(SmallGraphs \cup ChainGraphs)

NextPath == FindShortestPath

SpecPath == InitPath /\ [][NextPath]_vars

InitScores == InitWith(SmallGraphs \cup CompleteGraphs)

NextScores ==
    \/ CalculateDegreeCentrality
    \/ CalculateClusteringCoefficient
    \/ IdentifyHubs
    \/ ClearCache

SpecScores == InitScores /\ [][NextScores]_vars

InitBetweenness == InitWith(RunGraphs)

NextBetweenness ==
    \/ BetweennessBegin
    \/ BetweennessSample
    \/ BetweennessEnd
    \/ ClearCache

SpecBetweenness == InitBetweenness /\ [][NextBetweenness]_vars

InitCommunities == InitWith(RunGraphs \cup GroupGraphs)

NextCommunities ==
    \/ CommunitiesBegin
    \/ CommunitiesShuffle
    \/ CommunitiesVisit
    \/ CommunitiesEndIteration
    \/ CommunitiesEnd
    \/ ClearCache

SpecCommunities == InitCommunities /\ [][NextCommunities]_vars

(* A call of detectCommunities that has started runs on: its loops are     *)
(* synchronous code and nothing else runs before it returns.  Whether a    *)
(* call is made at all is up to the caller.                                *)
CommunitiesStep ==
    \/ CommunitiesShuffle
    \/ CommunitiesVisit
    \/ CommunitiesEndIteration
    \/ CommunitiesEnd

(* The chains on up to MaxNodes verses, one-way in either direction and    *)
(* two-way, and the lists with a ref that no verse has.                    *)
InitCommunitiesFair ==
    InitWith(UNION {{VersesOf(ChainRefs(n, FALSE)), VersesOf(ChainRefs(n, TRUE)),
                     VersesOf(BackChainRefs(n))} : n \in 1..MaxNodes}
             \cup DanglingGraphs)

SpecCommunitiesFair ==
    InitCommunitiesFair /\ [][NextCommunities]_vars /\ WF_vars(CommunitiesStep)

InitCache == InitWith(CacheGraphs)

NextCache ==
    \/ FindShortestPath
    \/ CalculateDegreeCentrality
    \/ CalculateClusteringCoefficient
    \/ IdentifyHubs
    \/ BetweennessBegin
    \/ BetweennessSample
    \/ BetweennessEnd
    \/ CommunitiesBegin
    \/ CommunitiesShuffle
    \/ CommunitiesVisit
    \/ CommunitiesEndIteration
    \/ CommunitiesEnd
    \/ GetNetworkStatistics
    \/ ComputeAllStatsBegin
    \/ AllBetweennessSample
    \/ AllBetweennessEnd
    \/ AllCommunitiesShuffle
    \/ AllCommunitiesVisit
    \/ AllCommunitiesEndIteration
    \/ AllCommunitiesEnd
    \/ ClearCache

SpecCache == InitCache /\ [][NextCache]_vars

NextReload ==
    \/ CalculateDegreeCentrality
    \/ CalculateClusteringCoefficient
    \/ IdentifyHubs
    \/ GetNetworkStatistics
    \/ ComputeAllStatsBegin
    \/ AllBetweennessSample
    \/ AllBetweennessEnd
    \/ AllCommunitiesShuffle
    \/ AllCommunitiesVisit
    \/ AllCommunitiesEndIteration
    \/ AllCommunitiesEnd
    \/ ClearCache
    \/ LoadData

SpecReload == InitCache /\ [][NextReload]_vars

(* The three computations that resolve refs, on lists with refs that no    *)
(* verse has.                                                              *)
InitDangling == InitWith(DanglingGraphs)

NextDangling ==
    \/ FindShortestPath
    \/ CalculateClusteringCoefficient
    \/ CommunitiesBegin
    \/ CommunitiesShuffle
    \/ CommunitiesVisit
    \/ CommunitiesEndIteration
    \/ CommunitiesEnd
    \/ ClearCache

SpecDangling == InitDangling /\ [][NextDangling]_vars

(* The two randomized computations on the two-way chains. *)
InitRuns == InitWith({VersesOf(ChainRefs(n, TRUE)) : n \in 1..MaxRunChain})

NextRuns ==
    \/ BetweennessBegin
    \/ BetweennessSample
    \/ BetweennessEnd
    \/ CommunitiesBegin
    \/ CommunitiesShuffle
    \/ CommunitiesVisit
    \/ CommunitiesEndIteration
    \/ CommunitiesEnd
    \/ ClearCache

SpecRuns == InitRuns /\ [][NextRuns]_vars

(* The calls the statistics panel makes (computeAllStats from the stats    *)
(* button, clearCache and then computeAllStats from Refresh), a reload of  *)
(* the data, and one more call that fills slots.                           *)
NextRefresh ==
    \/ ClearCache
    \/ ComputeAllStatsBegin
    \/ AllBetweennessSample
    \/ AllBetweennessEnd
    \/ AllCommunitiesShuffle
    \/ AllCommunitiesVisit
    \/ AllCommunitiesEndIteration
    \/ AllCommunitiesEnd
    \/ IdentifyHubs
    \/ LoadData

SpecRefresh == InitCache /\ [][NextRefresh]_vars

(* computeAllStats and the export of its report. *)
NextExport ==
    \/ ComputeAllStatsBegin
    \/ AllBetweennessSample
    \/ AllBetweennessEnd
    \/ AllCommunitiesShuffle
    \/ AllCommunitiesVisit
    \/ AllCommunitiesEndIteration
    \/ AllCommunitiesEnd
    \/ ClearCache
    \/ ExportStats

(* The lists of CacheGraphs with a ref: on them no entry of the report is  *)
(* NaN or undefined.                                                       *)
InitExport == InitWith({g \in CacheGraphs : TotalRefs(g) > 0})

SpecExport == InitExport /\ [][NextExport]_vars

(* The four calls that return a ranking. *)
InitRankings == InitWith(RankGraphs)

NextRankings ==
    \/ CalculateDegreeCentrality
    \/ CalculateClusteringCoefficient
    \/ IdentifyHubs
    \/ BetweennessBegin
    \/ BetweennessSample
    \/ BetweennessEnd
    \/ ClearCache

SpecRankings == InitRankings /\ [][NextRankings]_vars

(* getNetworkStatistics, before and after the degree ranking is cached. *)
NextNetwork ==
    \/ GetNetworkStatistics
    \/ CalculateDegreeCentrality
    \/ ClearCache

SpecNetwork == InitScores /\ [][NextNetwork]_vars

(* StatsPanel and the stats button.  Handlers run one at a time: a click   *)
(* or a timer is handled when no call of NetworkStats is running and no    *)
(* invocation is between its second await and its end.                     *)
Quiet == pc = "idle" /\ ~Computing(panel)

(* part_001 lines 87-106: the stats button calls                           *)
(* StatsPanel.computeAndDisplay(DataLoader.getVerses()).                   *)
ClickStats ==
    /\ Quiet
    /\ Len(panel.calls) < MaxInvocations
    /\ panel' = computeAndDisplay(panel)
    /\ UNCHANGED <<verses, statsCache, pc, bw, cd, ret, all>>

(* statsPanel.js lines 99-104: Refresh clears the cache and calls          *)
(* computeAndDisplay.                                                      *)
ClickRefresh ==
    /\ Quiet
    /\ Len(panel.calls) < MaxInvocations
    /\ statsCache' = clearCache
    /\ ret' = [op |-> "clearCache", args |-> <<>>, threw |-> FALSE, value |-> null]
    /\ panel' = computeAndDisplay(panel)
    /\ UNCHANGED <<verses, pc, bw, cd, all>>

(* statsPanel.js lines 92-97: Export hands currentStats to exportStats     *)
(* when there is one.                                                      *)
ClickExport ==
    /\ Quiet
    /\ panel.currentStats # null
    /\ ret' = [op |-> "exportStats", args |-> <<panel.currentStats[1]>>,
               threw |-> FALSE, value |-> JsonStringify(panel.currentStats[1])]
    /\ UNCHANGED <<verses, statsCache, pc, bw, cd, all, panel>>

(* statsPanel.js lines 175-181: the 200 ms timer of an invocation ends;    *)
(* of two invocations at this await the earlier one's timer ends first.    *)
FirstAwaitEnds ==
    /\ Quiet
    /\ \E k \in DOMAIN panel.calls :
         /\ panel.calls[k] = "wait200"
         /\ \A j \in 1..(k - 1) : panel.calls[j] # "wait200"
         /\ panel' = [panel EXCEPT !.calls[k] = "wait100", !.loadingText = LongText]
    /\ UNCHANGED <<verses, statsCache, pc, bw, cd, ret, all>>

(* statsPanel.js lines 184-186: the 100 ms timer of an invocation ends and *)
(* the invocation is about to call computeAllStats.                        *)
SecondAwaitEnds ==
    /\ Quiet
    /\ \E k \in DOMAIN panel.calls :
         /\ panel.calls[k] = "wait100"
         /\ \A j \in 1..(k - 1) : panel.calls[j] \notin {"wait200", "wait100"}
         /\ panel' = [panel EXCEPT !.calls[k] = "computing"]
    /\ UNCHANGED <<verses, statsCache, pc, bw, cd, ret, all>>

(* statsPanel.js line 186: the call of computeAllStats; its return runs    *)
(* the rest of the invocation (AllReturn, AllThrow).                       *)
PanelComputes == Computing(panel) /\ ComputeAllStatsBegin

(* Calls that do not come from the panel: another data file is loaded, and *)
(* a function of NetworkStats is called directly.  A file is loaded while  *)
(* no invocation is under way, so that an invocation computes on the list  *)
(* that getVerses() gave it at the click.                                  *)
PanelLoadData == panel.calls = <<>> /\ LoadData

PanelCalculateDegreeCentrality == Quiet /\ CalculateDegreeCentrality

PanelClearCache == Quiet /\ ClearCache

NextPanel ==
    \/ ClickStats
    \/ ClickRefresh
    \/ ClickExport
    \/ FirstAwaitEnds
    \/ SecondAwaitEnds
    \/ PanelComputes
    \/ AllBetweennessSample
    \/ AllBetweennessEnd
    \/ AllCommunitiesShuffle
    \/ AllCommunitiesVisit
    \/ AllCommunitiesEndIteration
    \/ AllCommunitiesEnd
    \/ PanelLoadData
    \/ PanelCalculateDegreeCentrality
    \/ PanelClearCache

SpecPanel == InitCache /\ [][NextPanel]_vars

(* The panel used without overlap: a click comes when no invocation is     *)
(* under way.                                                              *)
ClickStatsAlone == panel.calls = <<>> /\ ClickStats

ClickRefreshAlone == panel.calls = <<>> /\ ClickRefresh

NextSinglePanel ==
    \/ ClickStatsAlone
    \/ ClickRefreshAlone
    \/ ClickExport
    \/ FirstAwaitEnds
    \/ SecondAwaitEnds
    \/ PanelComputes
    \/ AllBetweennessSample
    \/ AllBetweennessEnd
    \/ AllCommunitiesShuffle
    \/ AllCommunitiesVisit
    \/ AllCommunitiesEndIteration
    \/ AllCommunitiesEnd
    \/ PanelLoadData
    \/ PanelCalculateDegreeCentrality
    \/ PanelClearCache

SpecSinglePanel == InitCache /\ [][NextSinglePanel]_vars

(* Every call of the module, on the graphs of the randomized computations. *)
Init == InitWith(RunGraphs)

Next ==
    \/ FindShortestPath
    \/ CalculateDegreeCentrality
    \/ CalculateClusteringCoefficient
    \/ IdentifyHubs
    \/ BetweennessBegin
    \/ BetweennessSample
    \/ BetweennessEnd
    \/ CommunitiesBegin
    \/ CommunitiesShuffle
    \/ CommunitiesVisit
    \/ CommunitiesEndIteration
    \/ CommunitiesEnd
    \/ ClearCache

Spec == Init /\ [][Next]_vars

-----------------------------------------------------------------------------
(* The path finder's claims *)

Ids == {verses[i].id : i \in DOMAIN verses}

(* The ids reachable from id s in at most k hops, a hop going from a verse *)
(* to a verse its refs list.                                               *)
RECURSIVE ReachWithin(_, _)
ReachWithin(s, k) ==
    IF k = 0 THEN {s}
    ELSE LET R == ReachWithin(s, k - 1)
         IN  R \cup {r \in Ids : \E i \in DOMAIN verses :
                        verses[i].id \in R /\ r \in Range(verses[i].refs)}

PathCall == ret.op = "findShortestPath"

(* C1: a returned path starts at the source, ends at the target, each node *)
(* after the first is a verse of the list that the node before it lists in *)
(* its refs, and the target cannot be reached in fewer hops.               *)
C1_PathIsShortest ==
    (PathCall /\ ret.value # null) =>
        LET p == ret.value IN
        /\ p[1] = ret.start
        /\ Last(p).id = ret.end.id
        /\ \A i \in 1..(Len(p) - 1) :
              /\ p[i + 1] \in Range(verses)
              /\ p[i + 1].id \in Range(p[i].refs)
        /\ (Len(p) >= 2 => ret.end.id \notin ReachWithin(ret.start.id, Len(p) - 2))

C1_Witness ==
    /\ PathCall
    /\ ret.value # null
    /\ Len(ret.value) = 4
    /\ \E i \in DOMAIN verses : Len(verses[i].refs) >= 2

(* C2: a path is returned exactly when the target is within maxDepth = 6   *)
(* hops of the source.                                                     *)
C2_FoundIffWithinSixHops ==
    PathCall => (ret.value # null <=> ret.end.id \in ReachWithin(ret.start.id, maxDepth))

-----------------------------------------------------------------------------
(* The claims on degree centrality, clustering and hubs *)

Returns(op) == ret.op = op /\ ~ret.threw

MaxDegree == CHOOSE m \in {verses[i].refCount : i \in DOMAIN verses} :
                 \A i \in DOMAIN verses : verses[i].refCount <= m

InUnitInterval(x) == x.k = "num" /\ 0 <= x.n /\ x.n <= x.d

(* The verse of the list with the id of record r. *)
VerseOf(id) == CHOOSE v \in Range(verses) : v.id = id

(* C3: when some verse has a positive refCount, every verse gets one       *)
(* record whose degreeCentrality is refCount / (largest refCount); every   *)
(* score lies in [0,1] and a verse with the largest refCount scores 1.     *)
C3_DegreeIsRefCountOverMax ==
    (Returns("calculateDegreeCentrality") /\ MaxDegree > 0) =>
        LET out == ret.value IN
        /\ Len(out) = Len(verses)
        /\ \A v \in Range(verses) : \E r \in Range(out) : r.id = v.id
        /\ \A r \in Range(out) :
              /\ r.refCount = VerseOf(r.id).refCount
              /\ r.degreeCentrality.k = "num"
              /\ r.degreeCentrality.n * MaxDegree = r.refCount * r.degreeCentrality.d
              /\ InUnitInterval(r.degreeCentrality)
              /\ (r.refCount = MaxDegree => r.degreeCentrality = Num(1))

C3_Witness ==
    /\ Returns("calculateDegreeCentrality")
    /\ MaxDegree = 2
    /\ \E r \in Range(ret.value) : r.degreeCentrality = Ratio(1, 2)
    /\ \E r \in Range(ret.value) : r.degreeCentrality = Num(1)
    /\ \E r \in Range(ret.value) : r.degreeCentrality = Num(0)

(* C4: when every verse has refCount 0, every verse's degreeCentrality is  *)
(* the number 0.                                                           *)
C4_AllZeroDegreesScoreZero ==
    (Returns("calculateDegreeCentrality") /\ MaxDegree = 0) =>
        \A r \in Range(ret.value) : r.degreeCentrality = Num(0)

(* The refs of r that are ids of verses, in ref-list order. *)
ResolvedRefs(r) == SelectSeq(r.refs, LAMBDA id : id \in Ids)

(* C7: every clustering coefficient lies in [0,1], and a verse with fewer  *)
(* than 2 refs, or fewer than 2 refs that resolve, gets exactly 0.         *)
C7_ClusteringInUnitInterval ==
    Returns("calculateClusteringCoefficient") =>
        /\ Len(ret.value) = Len(verses)
        /\ \A r \in Range(ret.value) :
              /\ InUnitInterval(r.clusteringCoefficient)
              /\ (r.refCount < 2 \/ Len(ResolvedRefs(r)) < 2
                    => r.clusteringCoefficient = Num(0))

C7_Witness ==
    /\ Returns("calculateClusteringCoefficient")
    /\ Len(verses) = 3
    /\ \E r \in Range(ret.value) :
          r.refCount >= 2 /\ Len(ResolvedRefs(r)) = 1 /\ r.clusteringCoefficient = Num(0)
    /\ \E r \in Range(ret.value) : r.refCount = 1

(* The pairs i < j of resolved neighbors of r with neighbor i listing      *)
(* neighbor j.                                                             *)
ConnectedPairs(r) ==
    LET nb == ResolvedRefs(r)
    IN  {p \in (DOMAIN nb) \X (DOMAIN nb) :
            p[1] < p[2] /\ nb[p[2]] \in Range(VerseOf(nb[p[1]]).refs)}

IsComplete ==
    /\ Len(verses) >= 3
    /\ \A v \in Range(verses) : Range(v.refs) = Ids \ {v.id}

(* C8: a verse with k >= 2 resolved neighbors has coefficient              *)
(* (connected pairs i < j, neighbor i listing neighbor j) / (k(k-1)/2);    *)
(* in a fully connected graph (where k >= 2 needs 3 verses or more) every  *)
(* verse has coefficient 1.                                                *)
C8_ClusteringIsPairsOverPossible ==
    Returns("calculateClusteringCoefficient") =>
        /\ \A r \in Range(ret.value) :
              LET k == Len(ResolvedRefs(r)) IN
              k >= 2 =>
                /\ r.clusteringCoefficient.k = "num"
                /\ r.clusteringCoefficient.n * ((k * (k - 1)) \div 2)
                      = Cardinality(ConnectedPairs(r)) * r.clusteringCoefficient.d
        /\ (IsComplete => \A r \in Range(ret.value) : r.clusteringCoefficient = Num(1))

C8_Witness ==
    /\ Returns("calculateClusteringCoefficient")
    /\ IsComplete
    /\ Len(verses) = 4
    /\ \A r \in Range(ret.value) : r.clusteringCoefficient = Num(1)

(* C9: every identifyHubs(verses, N) returns records whose hubScore is     *)
(* degreeCentrality * (1 - clusteringCoefficient), of which exactly        *)
(* min(N, number of verses) are flagged isHub: the first ones of the       *)
(* ranking.                                                                *)
C9_HubsHonourTopN ==
    Returns("identifyHubs") =>
        LET out == ret.value
            N == ret.args[1]
            flagged == {i \in DOMAIN out : out[i].isHub}
        IN  /\ \A r \in Range(out) :
                  r.hubScore =
                      JsMul(Find(DegreeScores(verses), r.id)[1].degreeCentrality,
                            JsSub(Num(1),
                                  Find(ClusteringScores(verses), r.id)[1].clusteringCoefficient))
            /\ flagged = 1..Min(N, Len(verses))

-----------------------------------------------------------------------------
(* The claims on betweenness centrality *)

(* C5: every betweenness score is a number >= 0; when some verse was       *)
(* counted the highest score is exactly 1 (and none is higher), and when   *)
(* no sampled path had an interior node every score is 0.                  *)
C5_BetweennessNormalized ==
    (Returns("calculateBetweennessCentrality") /\ Len(verses) > 0) =>
        LET out == ret.value IN
        /\ Len(out) = Len(verses)
        /\ \A r \in Range(out) :
              r.betweennessCentrality.k = "num" /\ r.betweennessCentrality.n >= 0
        /\ IF \A r \in Range(out) : r.betweennessScore = 0
           THEN \A r \in Range(out) : r.betweennessCentrality = Num(0)
           ELSE /\ \E r \in Range(out) : r.betweennessCentrality = Num(1)
                /\ \A r \in Range(out) : InUnitInterval(r.betweennessCentrality)

C5_Witness ==
    /\ Returns("calculateBetweennessCentrality")
    /\ \E r \in Range(ret.value) : r.betweennessScore = 2 /\ r.betweennessCentrality = Num(1)
    /\ \E r \in Range(ret.value) : r.betweennessScore = 1 /\ r.betweennessCentrality = Ratio(1, 2)

(* The ids strictly between the endpoints of a path; none for null. *)
InteriorIds(path) == {path[j].id : j \in 2..(Len(path) - 1)}

(* C6: the accumulators start at 0; an iteration with the pair (source,    *)
(* target) adds 1 exactly to the verses strictly inside the path found for *)
(* that pair, never to its source or target, and nothing when the path has *)
(* one or two nodes or does not exist; the returned betweennessScore is    *)
(* the accumulator.                                                        *)
C6_AccumulatorCountsInteriorNodes ==
    [][/\ (pc = "idle" /\ pc' = "betweenness") =>
              \A id \in Ids : bw'.betweenness[id] = 0
       /\ (pc = "betweenness" /\ pc' = "betweenness") =>
              LET s == bw'.source[1]
                  t == bw'.target[1]
                  found == IF s.id = t.id THEN null
                           ELSE findShortestPath(s, t, VerseMap(verses))
              IN  /\ s \in Range(verses) /\ t \in Range(verses)
                  /\ bw'.path = found
                  /\ \A id \in Ids :
                        bw'.betweenness[id] =
                            bw.betweenness[id] + (IF id \in InteriorIds(found) THEN 1 ELSE 0)
                  /\ bw'.betweenness[s.id] = bw.betweenness[s.id]
                  /\ bw'.betweenness[t.id] = bw.betweenness[t.id]
                  /\ (Len(found) <= 2 => bw'.betweenness = bw.betweenness)
       /\ (pc = "betweenness" /\ pc' = "idle") =>
              \A r \in Range(ret'.value) : r.betweennessScore = bw.betweenness[r.id]
      ]_vars

C6_Witness ==
    /\ pc = "betweenness"
    /\ bw.i = 2
    /\ Len(bw.path) = 3
    /\ bw.betweenness[bw.path[2].id] = 2
    /\ bw.betweenness[bw.source[1].id] = 0
    /\ bw.betweenness[bw.target[1].id] = 0

-----------------------------------------------------------------------------
(* The claims on community detection *)

InCommunities == pc \in {"cd_loop", "cd_for"}

LabelsAreVerseIds(labels) ==
    /\ DOMAIN labels = Ids
    /\ \A id \in Ids : labels[id] \in Ids

(* C10: before the first visit every verse's label is its own id, and      *)
(* after every visit, and in the result, every verse has one label, which  *)
(* is the id of a verse of the list.                                       *)
C10_LabelsAreVerseIds ==
    /\ InCommunities => LabelsAreVerseIds(cd.labels)
    /\ (InCommunities /\ cd.iter = 0 /\ (pc = "cd_for" => Len(cd.shuffled) = Len(verses)))
          => \A id \in Ids : cd.labels[id] = id
    /\ Returns("detectCommunities") => LabelsAreVerseIds(ret.value.labels)

C10_Witness ==
    /\ pc = "cd_for"
    /\ cd.changed >= 1
    /\ \E v \in Range(verses) :
          /\ cd.labels[v.id] # v.id
          /\ \E r \in Range(v.refs) : r \notin Ids

(* The ids of the members of the k-th reported community. *)
MemberIds(out, k) == {out.communities[k][2][i].id : i \in DOMAIN out.communities[k][2]}

(* The ids of the verses whose final label is l. *)
LabelGroup(out, l) == {id \in Ids : out.labels[id] = l}

(* C11: the reported communities are exactly the groups of verses with the *)
(* same final label that have at least 3 members, each listed once with    *)
(* its members listed once; no verse is in two of them; the list is in     *)
(* non-increasing order of member count and communityCount is its length.  *)
C11_CommunitiesAreLargeLabelGroups ==
    Returns("detectCommunities") =>
        LET out == ret.value
            cs == out.communities
        IN  /\ \A k \in DOMAIN cs :
                  /\ MemberIds(out, k) = LabelGroup(out, cs[k][1])
                  /\ Len(cs[k][2]) = Cardinality(MemberIds(out, k))
                  /\ Len(cs[k][2]) >= 3
                  /\ \A m \in Range(cs[k][2]) : m \in Range(verses)
            /\ \A l \in Ids :
                  Cardinality(LabelGroup(out, l)) >= 3 => \E k \in DOMAIN cs : cs[k][1] = l
            /\ \A j \in DOMAIN cs, k \in DOMAIN cs :
                  j # k => MemberIds(out, j) \cap MemberIds(out, k) = {}
            /\ \A k \in 1..(Len(cs) - 1) : Len(cs[k][2]) >= Len(cs[k + 1][2])
            /\ out.communityCount = Len(cs)

(* Two communities, the larger one reported first although its first       *)
(* member comes later in the list, and a verse outside both.               *)
C11_Witness ==
    /\ Returns("detectCommunities")
    /\ ret.value.communityCount = 2
    /\ Len(ret.value.communities[1][2]) = 4
    /\ Len(ret.value.communities[2][2]) = 3
    /\ ret.value.communities[1][2][1].id > ret.value.communities[2][2][1].id

(* C12: a verse with no refs of its own has clustering coefficient 0 and   *)
(* is a member of no reported community.                                   *)
C12_ZeroDegreeNeverInCommunity ==
    /\ Returns("calculateClusteringCoefficient") =>
          \A r \in Range(ret.value) : r.refCount = 0 => r.clusteringCoefficient = Num(0)
    /\ Returns("detectCommunities") =>
          \A k \in DOMAIN ret.value.communities :
              \A m \in Range(ret.value.communities[k][2]) : m.refCount # 0

-----------------------------------------------------------------------------
(* The claims on the cache *)

(* The slot each caching function keeps its result in. *)
SlotOf ==
    [calculateDegreeCentrality |-> "centrality",
     calculateBetweennessCentrality |-> "betweenness",
     calculateClusteringCoefficient |-> "clustering",
     identifyHubs |-> "hubs",
     detectCommunities |-> "communities"]

ResultSlots == {SlotOf[op] : op \in DOMAIN SlotOf}

(* C13: what a caching function returns is what its slot holds from then   *)
(* on, and a filled slot changes only when the whole cache is reset; so    *)
(* every call between two resets returns the result of the first one,      *)
(* whatever its arguments and whatever the random draws would have been.   *)
C13_CachedUntilCleared ==
    [][/\ \A slot \in ResultSlots :
              statsCache[slot] # null =>
                  statsCache'[slot] = statsCache[slot] \/ statsCache' = clearCache
       /\ \A op \in DOMAIN SlotOf :
              (ret'.op = op /\ ~ret'.threw) => statsCache'[SlotOf[op]] = Some(ret'.value)
      ]_vars

(* detectCommunities(verses, 0) has returned labels that no run of 0       *)
(* iterations produces, and identifyHubs(verses, 2) fewer flags than 2.    *)
C13_Witness ==
    /\ Returns("detectCommunities")
    /\ ret.args = <<0>>
    /\ \E id \in Ids : ret.value.labels[id] # id
    /\ statsCache.hubs # null
    /\ Len(verses) = 2
    /\ Cardinality({i \in DOMAIN statsCache.hubs[1] : statsCache.hubs[1][i].isHub}) = 1

(* The records of a returned list are the verses of the list passed, one   *)
(* record each.                                                            *)
RecordsOf(out) ==
    /\ Len(out) = Len(verses)
    /\ \A v \in Range(verses) :
          \E r \in Range(out) : r.id = v.id /\ r.refs = v.refs /\ r.refCount = v.refCount

(* C14: whatever list earlier calls were given, a call returns the result  *)
(* of the list passed to it: the degree and clustering scores are the ones *)
(* computed from that list, and the betweenness, hub and community results *)
(* are about its verses.                                                   *)
C14_ResultsAreOfTheListPassed ==
    /\ Returns("calculateDegreeCentrality") => ret.value = DegreeScores(verses)
    /\ Returns("calculateClusteringCoefficient") => ret.value = ClusteringScores(verses)
    /\ Returns("identifyHubs") => RecordsOf(ret.value)
    /\ Returns("computeAllStats") =>
          /\ ret.value.centrality = Slice(DegreeScores(verses), ReportCount)
          /\ ret.value.clustering = Slice(ClusteringScores(verses), ReportCount)
          /\ RecordsOf(ret.value.betweenness)
          /\ DOMAIN ret.value.communities.labels = Ids

AllSlots == ResultSlots \cup {"lastComputed"}

InAllCommunities == pc \in {"all_cd_loop", "all_cd_for"}

(* C15: a clearCache step leaves all six slots null; a filled slot becomes *)
(* null only in such a step, and then all six do; and a computeAllStats    *)
(* that starts on the cache as clearCache left it computes the degree      *)
(* scores from its argument, runs a fresh sampling, computes clustering    *)
(* and hubs from its argument, runs a fresh propagation, and stores and    *)
(* returns exactly these five results.                                     *)
C15_InvalidationIsWholesale ==
    [][/\ (ret'.op = "clearCache" /\ ret' # ret) =>
              \A slot \in AllSlots : statsCache'[slot] = null
       /\ \A slot \in AllSlots :
              (statsCache[slot] # null /\ statsCache'[slot] = null) =>
                  /\ ret'.op = "clearCache"
                  /\ \A other \in AllSlots : statsCache'[other] = null
       /\ (pc = "idle" /\ pc' # "idle" /\ all' # <<>>
              /\ \A slot \in AllSlots : statsCache[slot] = null) =>
              /\ pc' = "all_betweenness"
              /\ bw' = BetweennessLocals(verses, ReportSampleSize)
              /\ all'.centrality = Slice(DegreeScores(verses), ReportCount)
              /\ statsCache' = [statsCache EXCEPT !.centrality = Some(DegreeScores(verses))]
       /\ (pc = "all_betweenness" /\ pc' = "all_betweenness") =>
              statsCache' = statsCache /\ all' = all
       /\ (pc = "all_betweenness" /\ pc' # "all_betweenness"
              /\ statsCache.centrality = Some(DegreeScores(verses))
              /\ \A slot \in {"clustering", "hubs", "communities"} : statsCache[slot] = null) =>
              LET b == BetweennessScores(verses, bw.betweenness)
                  c == ClusteringScores(verses)
                  h == MarkTop(HubScores(verses, DegreeScores(verses), c), ReportTopN)
              IN  /\ statsCache' = [statsCache EXCEPT !.betweenness = Some(b),
                                                      !.clustering = Some(c),
                                                      !.hubs = Some(h)]
                  /\ all' = Spread(all, [betweenness |-> Slice(b, ReportCount),
                                         clustering |-> Slice(c, ReportCount),
                                         hubs |-> SelectSeq(h, LAMBDA v : v.isHub)])
                  /\ pc' = "all_cd_loop"
                  /\ cd' = CommunityLocals(verses, ReportIterations)
       /\ (InAllCommunities /\ InAllCommunities') =>
              statsCache' = statsCache /\ all' = all
       /\ (pc = "all_cd_loop" /\ pc' = "idle") =>
              LET r == CommunityResult(verses, cd.labels)
              IN  /\ statsCache'.communities = Some(r)
                  /\ statsCache'.lastComputed # null
                  /\ \A slot \in AllSlots \ {"communities", "lastComputed"} :
                        statsCache'[slot] = statsCache[slot]
                  /\ ret' = [op |-> "computeAllStats", args |-> <<>>, threw |-> FALSE,
                             value |-> Spread(all, [communities |-> r])]
      ]_vars

(* computeAllStats, started on the cache as clearCache left it, has        *)
(* recomputed four results and is in its propagation.                      *)
C15_Witness ==
    /\ pc = "all_cd_for"
    /\ ret.op = "clearCache"
    /\ cd.changed >= 1
    /\ \A slot \in {"centrality", "betweenness", "clustering", "hubs"} :
          statsCache[slot] # null
    /\ statsCache.communities = null
    /\ Len(statsCache.hubs[1]) = 2
    /\ \A i \in DOMAIN statsCache.hubs[1] : statsCache.hubs[1][i].isHub

-----------------------------------------------------------------------------
(* The claim on refs that no verse has *)

(* A verse, and the list, with every ref deleted that is no verse's id. *)
StripVerse(v) == Verse(v.id, SelectSeq(v.refs, LAMBDA id : id \in Ids))

Strip(vs) == [i \in DOMAIN vs |-> StripVerse(vs[i])]

IdsOf(xs) == [i \in DOMAIN xs |-> xs[i].id]

CommunityIds(result) ==
    [k \in DOMAIN result.communities |->
        <<result.communities[k][1], IdsOf(result.communities[k][2])>>]

(* C17: no call throws on a ref that no verse has, and each result is the  *)
(* one of the list with such refs deleted: findShortestPath returns the    *)
(* same path, calculateClusteringCoefficient the same ranking with the     *)
(* same coefficients, and detectCommunities starts with the same labels,   *)
(* changes them the same way in every visit of the same verse and reports  *)
(* the same communities.                                                   *)
C17_DanglingRefsAreSkipped ==
    [][/\ ~ret'.threw
       /\ ret'.op = "findShortestPath" =>
              IdsOf(ret'.value) =
                  IdsOf(findShortestPath(StripVerse(ret'.start), StripVerse(ret'.end),
                                         VerseMap(Strip(verses))))
       /\ ret'.op = "calculateClusteringCoefficient" =>
              LET stripped == ClusteringScores(Strip(verses)) IN
              /\ IdsOf(ret'.value) = IdsOf(stripped)
              /\ \A i \in DOMAIN stripped :
                    ret'.value[i].clusteringCoefficient = stripped[i].clusteringCoefficient
       /\ (pc = "idle" /\ pc' = "cd_loop") =>
              cd' = CommunityLocals(Strip(verses), cd'.iterations)
       /\ (pc = "cd_for" /\ pc' = "cd_for") =>
              LET stripped == Visit(cd, StripVerse(Head(cd.shuffled))) IN
              cd'.labels = stripped.labels /\ cd'.changed = stripped.changed
       /\ (pc = "cd_loop" /\ pc' = "idle") =>
              LET stripped == CommunityResult(Strip(verses), cd.labels) IN
              /\ CommunityIds(ret'.value) = CommunityIds(stripped)
              /\ ret'.value.communityCount = stripped.communityCount
              /\ ret'.value.labels = stripped.labels
      ]_vars

(* A verse with two refs that resolve and one that does not has got        *)
(* coefficient 1; it is in the ranking of a list of three.                 *)
C17_Witness ==
    /\ Returns("calculateClusteringCoefficient")
    /\ Len(verses) = 3
    /\ \E r \in Range(ret.value) :
          /\ r.refCount = 3
          /\ Len(ResolvedRefs(r)) = 2
          /\ r.clusteringCoefficient = Num(1)
    /\ statsCache.communities # null
    /\ statsCache.communities[1].communityCount = 1

-----------------------------------------------------------------------------
(* The claims on degenerate input and on the parameters *)

(* Neither NaN nor an infinity. *)
IsNumber(x) == x.k = "num"

(* C18: computeAllStats on an empty list or on one verse (without refs)    *)
(* does not throw, and reports average degree 0 ("0.00") and density 0     *)
(* ("0.0000%"), no communities, rankings with one record per verse (none   *)
(* for the empty list) and only numbers as scores.                         *)
C18_DegenerateListsGiveZeroResults ==
    (ret.op = "computeAllStats" /\ Len(verses) <= 1 /\ TotalRefs(verses) = 0) =>
        /\ ~ret.threw
        /\ ret.value.network.avgDegree = ToFixed(Num(0), AvgDigits)
        /\ ret.value.network.density = <<ToFixed(Num(0), DensityDigits), "%">>
        /\ ret.value.communities.communities = <<>>
        /\ ret.value.communities.communityCount = 0
        /\ Len(ret.value.centrality) = Len(verses)
        /\ Len(ret.value.betweenness) = Len(verses)
        /\ Len(ret.value.clustering) = Len(verses)
        /\ \A r \in Range(ret.value.centrality) : IsNumber(r.degreeCentrality)
        /\ \A r \in Range(ret.value.betweenness) : IsNumber(r.betweennessCentrality)
        /\ \A r \in Range(ret.value.clustering) : IsNumber(r.clusteringCoefficient)

(* C19: a call of calculateBetweennessCentrality with sampleSize <= 0, or  *)
(* of detectCommunities with iterations <= 0, ends in an error.            *)
C19_NonPositiveParametersAreRejected ==
    /\ (ret.op = "calculateBetweennessCentrality" /\ ret.args[1] <= 0) => ret.threw
    /\ (ret.op = "detectCommunities" /\ ret.args[1] <= 0) => ret.threw

-----------------------------------------------------------------------------
(* The claim on repeated runs *)

(* The visits of one iteration in the order `order`. *)
RECURSIVE VisitAll(_, _)
VisitAll(c, order) ==
    IF order = <<>> THEN c ELSE VisitAll(Visit(c, Head(order)), Tail(order))

(* The propagation from locals c on when every shuffle leaves the list in  *)
(* its order.                                                              *)
RECURSIVE RunInListOrder(_, _)
RunInListOrder(c, vs) ==
    IF c.iter >= c.iterations THEN c
    ELSE LET d == VisitAll([c EXCEPT !.changed = 0], vs)
         IN  IF d.changed = 0 THEN d ELSE RunInListOrder([d EXCEPT !.iter = @ + 1], vs)

(* C20: a fresh run on a list has one possible outcome.  The sampling can  *)
(* draw the first verse every time, which counts nothing, and the shuffle  *)
(* can leave the list in its order every time; so when a sampling loop has *)
(* ended its accumulators are all 0, and when a propagation loop has ended *)
(* its labels are those of the run in list order.                          *)
C20_FreshRunsAgree ==
    /\ (pc = "betweenness" /\ bw.i >= bw.sample) =>
          \A id \in Ids : bw.betweenness[id] = 0
    /\ (pc = "cd_loop" /\ (cd.converged \/ cd.iter >= cd.iterations)) =>
          cd.labels = RunInListOrder(CommunityLocals(verses, cd.iterations), verses).labels

-----------------------------------------------------------------------------
(* The claim on the export *)

(* C21: parsing the exported text gives back the report that was exported, *)
(* every sub-result included: network, the four rankings, and of the       *)
(* communities the list, communityCount and the labels.                    *)
C21_ExportRoundTrips ==
    ret.op = "exportStats" => JsonParse(ret.value) = ret.args[1]

-----------------------------------------------------------------------------
(* The claim on the order of the rankings *)

(* The score each ranking is sorted by. *)
ScoreOf ==
    [calculateDegreeCentrality |-> "degreeCentrality",
     calculateBetweennessCentrality |-> "betweennessCentrality",
     calculateClusteringCoefficient |-> "clusteringCoefficient",
     identifyHubs |-> "hubScore"]

(* The place of the verse with this id in the list. *)
PlaceOf(id) == CHOOSE i \in DOMAIN verses : verses[i].id = id

(* x > y; false when the difference is NaN *)
Greater(x, y) == JsPositive(JsSub(x, y))

-----------------------------------------------------------------------------
(* The claim on the network scalars *)

(* The number of verses with more than m refs, and with m refs or more. *)
CountAbove(m) == Cardinality({i \in DOMAIN verses : verses[i].refCount > m})

CountFrom(m) == Cardinality({i \in DOMAIN verses : verses[i].refCount >= m})

(* The sum of the ref counts of the verses at the places in S. *)
RECURSIVE SumOfRefCounts(_)
SumOfRefCounts(S) ==
    IF S = {} THEN 0
    ELSE LET i == CHOOSE j \in S : TRUE
         IN  verses[i].refCount + SumOfRefCounts(S \ {i})

(* C23: on a list of n >= 1 verses getNetworkStatistics reports nodeCount  *)
(* n, edgeCount the sum e of the ref counts, maxDegree the largest ref     *)
(* count, medianDegree the ref count at index floor(n/2) (from 0) of the   *)
(* ref counts in descending order, and as density the quotient             *)
(* (e/2) / (n(n-1)/2) = e / (n(n-1)) as a percentage rounded to 4 digits;  *)
(* for n = 1 the divisor is 0 and the quotient, NaN for e = 0 and Infinity  *)
(* otherwise, is reported as it is.                                        *)
C23_NetworkScalars ==
    (Returns("getNetworkStatistics") /\ Len(verses) >= 1) =>
        LET out == ret.value
            n == Len(verses)
            e == SumOfRefCounts(DOMAIN verses)
            pct == out.density[1]
        IN  /\ out.nodeCount = n
            /\ out.edgeCount = e
            /\ out.maxDegree = Num(MaxDegree)
            /\ out.medianDegree.k = "num" /\ out.medianDegree.d = 1
            /\ CountAbove(out.medianDegree.n) <= n \div 2
            /\ n \div 2 < CountFrom(out.medianDegree.n)
            /\ out.density[2] = "%"
            /\ pct.digits = DensityDigits
            /\ IF n = 1 THEN pct.text = (IF e = 0 THEN "NaN" ELSE "Infinity")
               ELSE /\ pct.text = "decimal"
                    /\ pct.sign = 1
                    \* pct.scaled / 10^4 is within half a unit of 100 e / (n(n-1))
                    /\ 2 * Abs(pct.scaled * n * (n - 1) - e * 100 * Pow10(DensityDigits))
                          <= n * (n - 1)

(* Three verses with 0, 2 and 1 refs: the median 1 is neither the largest  *)
(* count nor the middle verse's, and the density is 50.0000%.              *)
C23_Witness ==
    /\ Returns("getNetworkStatistics")
    /\ RefCounts(verses) = <<0, 2, 1>>
    /\ ret.value.medianDegree = Num(1)
    /\ ret.value.maxDegree = Num(2)
    /\ ret.value.density[1].scaled = 500000
    /\ statsCache.centrality # null

-----------------------------------------------------------------------------
(* The claims on the sampling *)

(* A<->B, B<->C, C<->D with A, B, C, D the verses 1, 2, 3, 4. *)
IsFourChain == verses = VersesOf(ChainRefs(4, TRUE))

(* The ordered pairs of two different verses. *)
NodePairs == {p \in Ids \X Ids : p[1] # p[2]}

(* C24: when the sampling loop of a call on the 4-verse chain with a       *)
(* sampleSize of at least the number of pairs has ended, the scores its    *)
(* accumulators give are 1 for B and C and 0 for A and D.                  *)
C24_ChainInteriorScoresOne ==
    (pc = "betweenness" /\ bw.i >= bw.sample /\ IsFourChain
        /\ bw.sampleSize >= Cardinality(NodePairs)) =>
        \A r \in Range(BetweennessScores(verses, bw.betweenness)) :
            r.betweennessCentrality = (IF r.id \in {2, 3} THEN Num(1) ELSE Num(0))

-----------------------------------------------------------------------------
(* The claim on the direction of refs *)

(* C25: findShortestPath(A, B) returns a path exactly when                 *)
(* findShortestPath(B, A) does, and then both have the same number of      *)
(* hops, also when A lists B and B does not list A.                        *)
C25_PathSearchIsSymmetric ==
    PathCall =>
        LET back == findShortestPath(ret.end, ret.start, VerseMap(verses))
        IN  /\ ret.value # null <=> back # null
            /\ ret.value # null => Len(back) = Len(ret.value)

(* C26: on a list of two or more verses (so that there are pairs) the      *)
(* sampling loop ends after min(sampleSize, number of verses) runs of the  *)
(* path finder: an iteration that draws two different verses runs it on    *)
(* them and uses up one sample, and an iteration that draws the same verse *)
(* twice runs nothing and uses up none.                                    *)
C26_SameNodeDrawsAreNotCounted ==
    [][/\ (pc = "idle" /\ pc' = "betweenness") =>
              bw'.i = 0 /\ bw'.sample = Min(bw'.sampleSize, Len(verses))
       /\ (pc = "betweenness" /\ pc' = "betweenness" /\ Len(verses) >= 2) =>
              LET s == bw'.source[1]
                  t == bw'.target[1]
              IN  IF s.id # t.id
                  THEN /\ bw'.path = findShortestPath(s, t, VerseMap(verses))
                       /\ bw'.i = bw.i + 1
                  ELSE /\ bw'.path = null
                       /\ bw'.i = bw.i
       /\ (pc = "betweenness" /\ pc' = "idle") => bw.i = bw.sample
      ]_vars

-----------------------------------------------------------------------------
(* The claims on the propagation *)

(* The labels that the resolved neighbors of verse v hold, in the order of *)
(* v's refs.                                                               *)
NeighborLabels(v, labels) ==
    [i \in DOMAIN ResolvedRefs(v) |-> labels[ResolvedRefs(v)[i]]]

(* How many entries of ls are l, and the place of the first one. *)
Occurrences(ls, l) == Cardinality({i \in DOMAIN ls : ls[i] = l})

FirstPlace(ls, l) == CHOOSE i \in DOMAIN ls : ls[i] = l /\ \A j \in 1..(i - 1) : ls[j] # l

(* The label verse v gets in a visit under the labelling `labels`: its own *)
(* when it has no refs or none that resolves, else the label most of its   *)
(* resolved neighbors hold, the one met first among those with the highest *)
(* count.                                                                  *)
LabelAfterVisit(v, labels) ==
    LET ls == NeighborLabels(v, labels)
    IN  IF v.refCount = 0 \/ ls = <<>> THEN labels[v.id]
        ELSE CHOOSE l \in Range(ls) :
                \A m \in Range(ls) \ {l} :
                    \/ Occurrences(ls, l) > Occurrences(ls, m)
                    \/ /\ Occurrences(ls, l) = Occurrences(ls, m)
                       /\ FirstPlace(ls, l) < FirstPlace(ls, m)

(* C27: a visit gives the visited verse the label that most of its         *)
(* resolved neighbors hold at that moment, the first met in ref order      *)
(* among the labels with the highest count; a verse without refs, or       *)
(* without a ref that resolves, keeps its label; no other verse's label    *)
(* changes; and the change counter goes up by one exactly when the visited *)
(* verse's label is another one than before.                               *)
C27_VisitTakesMostCommonLabel ==
    [][(pc = "cd_for" /\ pc' = "cd_for") =>
          LET v == Head(cd.shuffled)
              new == LabelAfterVisit(v, cd.labels)
          IN  /\ cd'.labels = [cd.labels EXCEPT ![v.id] = new]
              /\ cd'.changed = cd.changed + (IF new # cd.labels[v.id] THEN 1 ELSE 0)
              /\ cd'.shuffled = Tail(cd.shuffled)
      ]_vars

(* In the first iteration a verse holds a label that is neither its own id *)
(* nor a ref of it: it took a label its neighbor had got earlier in the    *)
(* iteration; and a verse with two resolved neighbors, which held          *)
(* different labels when the iteration began, has been visited.            *)
C27_Witness ==
    /\ pc = "cd_for"
    /\ cd.iter = 0
    /\ \E v \in Range(verses) : cd.labels[v.id] \notin Range(v.refs) \cup {v.id}
    /\ \E v \in Range(verses) :
          /\ Len(ResolvedRefs(v)) >= 2
          /\ v \notin Range(cd.shuffled)
          /\ cd.labels[v.id] = ResolvedRefs(v)[1]

(* C28: a pass starts only while fewer than `iterations` passes have been  *)
(* made and none has changed zero labels; the pass counter counts the      *)
(* passes; after a pass that changed no label the labelling is one that a  *)
(* visit of any verse leaves as it is, so a pass in any order would change *)
(* nothing; and every call that has started returns.                       *)
C28_PropagationTerminates ==
    /\ [][/\ (pc = "cd_loop" /\ pc' = "cd_for") =>
                 ~cd.converged /\ cd.iter < cd.iterations
          /\ (pc = "cd_for" /\ pc' = "cd_loop") =>
                 IF cd.changed = 0 THEN cd'.converged /\ cd'.iter = cd.iter
                 ELSE ~cd'.converged /\ cd'.iter = cd.iter + 1
          /\ (pc = "cd_loop" /\ cd.converged) => pc' = "idle"
         ]_vars
    /\ [](InCommunities =>
             /\ cd.iter + (IF pc = "cd_for" THEN 1 ELSE 0) <= cd.iterations
             /\ cd.converged =>
                   \A v \in Range(verses) : LabelAfterVisit(v, cd.labels) = cd.labels[v.id])
    /\ (InCommunities ~> pc = "idle")

(* The loop has been left after its third pass, which changed nothing,     *)
(* with two passes of the budget unused.                                   *)
C28_Witness ==
    /\ pc = "cd_loop"
    /\ cd.converged
    /\ cd.iter = 2
    /\ cd.iterations = DefaultIterations
    /\ \E id \in Ids : cd.labels[id] # id

-----------------------------------------------------------------------------
(* StatsPanel.computeAndDisplay *)

(* The step ends the invocation that is under way. *)
InvocationEnds == panel.calls # <<>> /\ panel'.calls = <<>>

(* C29: when a computeAndDisplay call that ran alone ends after            *)
(* computeAllStats returned, the loading element is hidden, the results    *)
(* pane is visible, and currentStats and the displayed report are the new  *)
(* report; when it ends after computeAllStats threw, the results pane is   *)
(* hidden, the loading element is visible with the error text and          *)
(* currentStats is as before.  currentStats changes in no other step, and  *)
(* what Export hands exportStats is currentStats, the displayed report.    *)
C29_SingleCallOutcome ==
    [][/\ InvocationEnds =>
            /\ ret'.op = "computeAllStats"
            /\ IF ret'.threw
               THEN /\ panel'.resultsHidden
                    /\ ~panel'.loadingHidden
                    /\ panel'.loadingText = ErrorText
                    /\ panel'.currentStats = panel.currentStats
                    /\ panel'.shown = panel.shown
               ELSE /\ panel'.loadingHidden
                    /\ ~panel'.resultsHidden
                    /\ panel'.currentStats = Some(ret'.value)
                    /\ panel'.shown = Some(ret'.value)
       /\ panel'.currentStats # panel.currentStats =>
            /\ InvocationEnds
            /\ ~ret'.threw
       /\ ret'.op = "exportStats" =>
            /\ panel'.currentStats # null
            /\ ret'.args = <<panel'.currentStats[1]>>
            /\ panel'.shown = panel'.currentStats]_vars

(* An invocation has ended in the catch block after an earlier one had     *)
(* displayed a report, and Export has been clicked since.                  *)
C29_Witness ==
    /\ panel.finished = "caught"
    /\ panel.calls = <<>>
    /\ panel.currentStats # null
    /\ ret.op = "exportStats"
    /\ panel.resultsHidden
    /\ ~panel.loadingHidden

====
